---------------------------- MODULE Spec2Model ----------------------------
(***************************************************************************)
(* Client-side session controller of the Connect 4 frontend.               *)
(*                                                                         *)
(*  - ConnectionManager: App.tsx, connectWebSocket and the effects around  *)
(*    it (candidate endpoints, open/close handling, reconnect back-off,    *)
(*    unmount cleanup, beforeunload).                                      *)
(*  - MessageRouter / GameStateReconciler: GameBoard.tsx, messageHandler   *)
(*    and handleColumnClick.                                               *)
(*                                                                         *)
(* One JavaScript task (an event handler, a timer callback, together with  *)
(* the React effects its state updates trigger) is one action.             *)
(***************************************************************************)
EXTENDS Integers, Sequences, FiniteSets, TLC

VARIABLES
    \* ---- App.tsx -------------------------------------------------------
    now,              \* Date.now(), in ms since the first page load
    username,         \* useState username ("" for null)
    envWs,            \* process.env.REACT_APP_WS_URL (<<>> when unset)
    host,             \* window.location.hostname
    gameMode,         \* useState gameMode ("none" for null)
    didAutoReconnect, \* didAutoReconnect.current
    mounted,          \* App is mounted (its state setters have an effect)
    isUnloadingRef,   \* isUnloadingRef.current
    activeWsRef,      \* activeWsRef.current (0 for null, else a socket id)
    websocket,        \* useState websocket (0 for null)
    isConnected,      \* useState isConnected
    sockets,          \* every WebSocket object created so far, by id
    sessions,         \* every connectWebSocket call (its closure variables)
    \* ---- GameBoard.tsx -------------------------------------------------
    gameState,        \* useState gameState
    isMyTurn,         \* useState isMyTurn
    pendingMove,      \* useState pendingMove
    pendingMoveTimeoutRef, \* pendingMoveTimeoutRef.current is armed
    gameFinished,     \* useState gameFinished
    finishedData,     \* useState finishedData
    isLoadingRematch, \* useState isLoadingRematch
    messageHandlers,  \* messageHandler closures chained on websocket.onmessage
    unansweredMoves,  \* history: accepted local moves sent since the last
                      \* authoritative frame that was applied
    friendWaitingTimeoutRef, \* friendWaitingTimeoutRef.current is armed
    botJoinTimer,     \* the setTimeout that sends the computer-mode join is pending
    \* ---- sessionStorage -------------------------------------------------
    storedGameState,  \* item connect4_gameState
    storedGameMode,   \* item connect4_gameMode ("none" when absent)
    storedUsername,   \* item connect4_username ("" when absent)
    lastUpdated,      \* item connect4_lastUpdated (NoTime when absent)
    \* ---- observation ---------------------------------------------------
    lastEvent         \* the task that ran last (what it was given, what it did)

appVars  == <<now, username, envWs, host, gameMode, didAutoReconnect, mounted,
              isUnloadingRef, activeWsRef, websocket, isConnected, sockets,
              sessions>>
gameVars == <<gameState, isMyTurn, pendingMove, pendingMoveTimeoutRef,
              gameFinished, finishedData, isLoadingRematch, messageHandlers,
              unansweredMoves>>
matchVars == <<friendWaitingTimeoutRef, botJoinTimer>>
storeVars == <<storedGameState, storedGameMode, storedUsername, lastUpdated>>
vars     == <<appVars, gameVars, matchVars, storeVars, lastEvent>>

-----------------------------------------------------------------------------
(* Bounds of the model *)

\* WebSocket objects created in one page life time
MaxSockets == 7
\* connectWebSocket calls in one page life time
MaxSessions == 2
\* runs of GameBoard's handler setup effect on one socket
MaxSetups == 2
\* cap of the count of unanswered local moves
MaxUnanswered == 2

-----------------------------------------------------------------------------
(* ConnectionManager: App.tsx *)

MAX_RETRIES == 5
INITIAL_RETRY_DELAY == 1000

NoEnv     == <<>>
ProdHost  == "emitrr-assignment-backend-production.up.railway.app"
ProdUrl   == <<"wss", ProdHost, "/ws">>
LocalUrl  == <<"ws", "localhost:8080", "/ws">>
SameOriginUrl(h) == <<"wss", h, "/ws">>

\* Values of REACT_APP_WS_URL and of the page's host name the model starts from
EnvChoices  == {NoEnv, <<"wss", "ws.example.com", "/ws">>, ProdUrl}
HostChoices == {"localhost", "connect4.example.com"}

\* candidates[] as connect() builds it
Candidates ==
    (IF envWs # NoEnv THEN <<envWs>> ELSE <<>>)
    \o <<ProdUrl>>
    \o (IF host # "" /\ host # "localhost" /\ host # "127.0.0.1"
        THEN <<SameOriginUrl(host)>> ELSE <<>>)
    \o <<LocalUrl>>

\* candidateIndex = retryCount % candidates.length (0-based)
CandidateIndex(retryCount) == retryCount % Len(Candidates)

WsUrl(retryCount) == Candidates[CandidateIndex(retryCount) + 1]

\* WebSocket.close(): a connecting or open socket starts closing
CloseCall(readyState) ==
    IF readyState \in {"CONNECTING", "OPEN"} THEN "CLOSING" ELSE readyState

NewSocket(s, retryCount) ==
    [ readyState |-> "CONNECTING",
      session    |-> s,
      url        |-> WsUrl(retryCount),
      retryAt    |-> retryCount,   \* retryCount when connect() created it
      opened     |-> FALSE,        \* onopen has run
      joinTimer  |-> FALSE,        \* the setTimeout of onopen is pending
      joinSent   |-> 0 ]           \* join frames sent on it

\* A closed socket whose join timer has fired can act no more: the model
\* keeps its slot and forgets what it did.
DeadSocket ==
    [ readyState |-> "CLOSED", session |-> 0, url |-> <<>>, retryAt |-> 0,
      opened |-> FALSE, joinTimer |-> FALSE, joinSent |-> 0 ]

Settle(sock) ==
    IF sock.readyState = "CLOSED" /\ ~sock.joinTimer THEN DeadSocket ELSE sock

NewSession(mode) ==
    [ mode       |-> mode,
      retryCount |-> 0,
      retryDelay |-> INITIAL_RETRY_DELAY,
      createdWs  |-> 0,
      timer      |-> 0,    \* delay of the pending setTimeout(connect), 0: none
      scheduled  |-> 0,    \* reconnects scheduled since connect / last open
      prevFailed |-> <<>>, \* endpoint of the latest attempt, if it failed
      alerts     |-> 0 ]   \* alert() calls

\* connect(): "if (state === OPEN || state === CONNECTING) return"
HasLiveSocket_OpenOnly ==
    activeWsRef # 0 /\ sockets[activeWsRef].readyState = "OPEN"
HasLiveSocket ==
    activeWsRef # 0 /\ sockets[activeWsRef].readyState \in {"OPEN", "CONNECTING"}

\* what a caller of connect() records: the tracked socket was connecting or
\* open before the call, and the call created a socket
ConnectSeen(name) ==
    [ op |-> name,
      live |-> activeWsRef # 0 /\ sockets[activeWsRef].readyState \in {"OPEN", "CONNECTING"},
      created |-> Len(sockets') > Len(sockets) ]

\* connect() of session s, run on the closure variables ss; it decides
\* sockets, sessions and activeWsRef
Connect(s, ss) ==
    IF isUnloadingRef \/ HasLiveSocket
    THEN /\ sockets' = sockets
         /\ sessions' = ss
         /\ activeWsRef' = activeWsRef
    ELSE /\ Len(sockets) < MaxSockets
         /\ LET closed == IF activeWsRef # 0
                          THEN [sockets EXCEPT ![activeWsRef].readyState = CloseCall(@)]
                          ELSE sockets
                ws == Len(sockets) + 1
            IN /\ sockets' = Append(closed, NewSocket(s, ss[s].retryCount))
               /\ sessions' = [ss EXCEPT ![s].createdWs = ws]
               /\ activeWsRef' = ws

\* connectWebSocket(username, mode): a new closure, then connect()
ConnectWebSocket(mode) ==
    /\ Len(sessions) < MaxSessions
    /\ Connect(Len(sessions) + 1, Append(sessions, NewSession(mode)))

\* GameModeSelection is on screen: gameMode was null at the last render. The
\* render that follows a selection is not committed while onSelectMode calls
\* are handled back to back in one batch.
ModeScreenShown ==
    /\ username # ""
    /\ gameMode = "none" \/ lastEvent.op = "handleModeSelection"

\* handleModeSelection(mode)
HandleModeSelection(mode) ==
    /\ mounted /\ didAutoReconnect /\ ModeScreenShown
    /\ gameMode' = mode
    /\ IF username # ""
       THEN ConnectWebSocket(mode)
       ELSE UNCHANGED <<sockets, sessions, activeWsRef>>
    /\ storedGameMode' = mode                        \* the save effect ([gameMode])
    /\ lastUpdated' = now
    /\ lastEvent' = ConnectSeen("handleModeSelection")
    /\ UNCHANGED <<now, username, envWs, host, didAutoReconnect, mounted, isUnloadingRef,
                   websocket, isConnected, gameVars, matchVars, storedGameState,
                   storedUsername>>

\* the auto reconnect effect, run once after the first render
AutoReconnectEffect ==
    /\ mounted /\ ~didAutoReconnect
    /\ didAutoReconnect' = TRUE
    /\ IF username # "" /\ gameMode # "none" /\ websocket = 0 /\ ~isConnected
       THEN ConnectWebSocket(gameMode)
       ELSE UNCHANGED <<sockets, sessions, activeWsRef>>
    /\ lastEvent' = ConnectSeen("autoReconnect")
    /\ UNCHANGED <<now, username, envWs, host, gameMode, mounted, isUnloadingRef,
                   websocket, isConnected, gameVars, matchVars, storeVars>>

\* the setTimeout of onopen: send the join frame if the socket is still open
JoinTimerFire(h) ==
    /\ h \in 1..Len(sockets)
    /\ sockets[h].joinTimer
    /\ sockets' = [sockets EXCEPT ![h] = Settle([@ EXCEPT
                        !.joinTimer = FALSE,
                        !.joinSent = IF sockets[h].readyState = "OPEN"
                                     THEN @ + 1 ELSE @])]
    /\ lastEvent' = [op |-> "joinTimer", ws |-> h,
                     sent |-> sockets[h].readyState = "OPEN",
                     mode |-> sessions[sockets[h].session].mode]
    /\ UNCHANGED <<now, username, envWs, host, gameMode, didAutoReconnect, mounted,
                   isUnloadingRef, activeWsRef, websocket, isConnected, sessions,
                   gameVars, matchVars, storeVars>>

\* ws.onerror
WsError(h) ==
    /\ h \in 1..Len(sockets)
    /\ sockets[h].readyState # "CLOSED"
    /\ isConnected' = IF mounted THEN FALSE ELSE isConnected
    /\ lastEvent' = [op |-> "error", ws |-> h]
    /\ UNCHANGED <<now, username, envWs, host, gameMode, didAutoReconnect, mounted,
                   isUnloadingRef, activeWsRef, websocket, sockets, sessions, gameVars, matchVars, storeVars>>

\* the server starts the closing handshake of an open socket
WsClosing(h) ==
    /\ h \in 1..Len(sockets)
    /\ sockets[h].readyState = "OPEN"
    /\ sockets' = [sockets EXCEPT ![h].readyState = "CLOSING"]
    /\ lastEvent' = [op |-> "closing", ws |-> h]
    /\ UNCHANGED <<now, username, envWs, host, gameMode, didAutoReconnect, mounted,
                   isUnloadingRef, activeWsRef, websocket, isConnected, sessions,
                   gameVars, matchVars, storeVars>>

\* ws.onclose: "if (isUnloadingRef.current) return; if (activeWsRef.current !== ws) return"
OnCloseIgnored_NoStaleCheck(h) == isUnloadingRef
OnCloseIgnored_NoUnloadCheck(h) == activeWsRef # h
OnCloseIgnored(h) == isUnloadingRef \/ activeWsRef # h

\* ws.onclose: "if (retryCount < MAX_RETRIES)"
MayRetry_OneMore(retryCount) == retryCount <= MAX_RETRIES
MayRetry(retryCount) == retryCount < MAX_RETRIES

\* GameBoard's handler setup wraps the onclose it finds: "websocket.onclose =
\* (event) => { originalOnClose.call(websocket, event) }". Calls of the
\* onclose of App for one close event when n wrappers are chained on it.
RECURSIVE OnCloseCalls_Replaced(_)
OnCloseCalls_Replaced(n) == IF n = 0 THEN 1 ELSE 0
RECURSIVE OnCloseCalls(_)
OnCloseCalls(n) == IF n = 0 THEN 1 ELSE OnCloseCalls(n - 1)

\* the wrappers on socket h: one for each handler setup of the board on it
CloseWrappers(h) == IF h = websocket THEN messageHandlers ELSE 0

\* setTimeout(connect, retryDelay) fires. Timers fire in the order of their
\* expiry: the 100 ms join timer of an earlier open has fired before a retry
\* timer (2000 ms or more) that was armed after it.
RetryTimerFire(s) ==
    /\ s \in 1..Len(sessions)
    /\ sessions[s].timer # 0
    /\ \A h \in 1..Len(sockets) : ~sockets[h].joinTimer
    /\ ~botJoinTimer                  \* the 100 ms timer of the bot fallback
    /\ Connect(s, [sessions EXCEPT ![s].timer = 0])
    /\ lastEvent' = ConnectSeen("retryTimer")
    /\ UNCHANGED <<now, username, envWs, host, gameMode, didAutoReconnect, mounted,
                   isUnloadingRef, websocket, isConnected, gameVars, matchVars, storeVars>>

\* App unmounts: the cleanup of the [websocket] effect runs, and the
\* beforeunload listener is removed
Unmount ==
    /\ mounted /\ didAutoReconnect
    /\ mounted' = FALSE
    /\ IF activeWsRef # 0 /\ activeWsRef = websocket
       THEN /\ sockets' = [sockets EXCEPT ![activeWsRef].readyState = CloseCall(@)]
            /\ activeWsRef' = 0
       ELSE UNCHANGED <<sockets, activeWsRef>>
    /\ lastEvent' = [op |-> "unmount"]
    /\ UNCHANGED <<now, username, envWs, host, gameMode, didAutoReconnect,
                   isUnloadingRef, websocket, isConnected, sessions, gameVars, matchVars, storeVars>>

\* handleBeforeUnload
HandleBeforeUnload ==
    /\ mounted /\ didAutoReconnect
    /\ ~isUnloadingRef
    /\ isUnloadingRef' = TRUE
    /\ IF activeWsRef # 0 /\ sockets[activeWsRef].readyState = "OPEN"
       THEN sockets' = [sockets EXCEPT ![activeWsRef].readyState = CloseCall(@)]
       ELSE UNCHANGED sockets
    /\ lastEvent' = [op |-> "beforeunload"]
    /\ UNCHANGED <<now, username, envWs, host, gameMode, didAutoReconnect, mounted,
                   activeWsRef, websocket, isConnected, sessions, gameVars, matchVars, storeVars>>

-----------------------------------------------------------------------------
(* MessageRouter and GameStateReconciler: GameBoard.tsx *)

\* The username prop of GameBoard
LocalUser == "alice"

\* A board is a sequence of rows, a row a sequence of cells: row r, column c
\* of the code (0-based) is board[r + 1][c + 1].
ZeroRow(n) == [c \in 1..n |-> 0]
EmptyBoard == [r \in 1..6 |-> ZeroRow(7)]

\* Optional values: "none" stands for undefined / null / a missing field
NoPlayer == [kind |-> "none"]
NoMove   == [kind |-> "none"]
NoTurn   == 0

\* getInitialState() with nothing stored
InitialGameState ==
    [ board |-> EmptyBoard, currentTurn |-> 1, status |-> "waiting",
      winner |-> NoPlayer, player1 |-> NoPlayer, player2 |-> NoPlayer,
      lastMove |-> NoMove ]

\* ---- sessionStorage --------------------------------------------------------

\* loadGameState() returns null
NoStored == [kind |-> "none"]

\* getItem(LAST_UPDATED) returns null
NoTime == -1

\* getInitialState(): a stored state is restored only with both players;
\* "currentTurn: stored.currentTurn || 1, status: stored.status || 'waiting'"
RestoredState(stored) ==
    [ board |-> stored.board,
      currentTurn |-> IF stored.currentTurn = 0 THEN 1 ELSE stored.currentTurn,
      status |-> IF stored.status = "" THEN "waiting" ELSE stored.status,
      winner |-> stored.winner, player1 |-> stored.player1,
      player2 |-> stored.player2, lastMove |-> stored.lastMove ]

GetInitialState_OnePlayerEnough(stored) ==
    IF stored # NoStored /\ (stored.player1 # NoPlayer \/ stored.player2 # NoPlayer)
    THEN RestoredState(stored)
    ELSE InitialGameState
GetInitialState(stored) ==
    IF stored # NoStored /\ stored.player1 # NoPlayer /\ stored.player2 # NoPlayer
    THEN RestoredState(stored)
    ELSE InitialGameState

\* the save effect ([gameState]) calls saveGameState
Saves(gs) ==
    gs.status # "waiting" \/ (gs.player1 # NoPlayer /\ gs.player2 # NoPlayer)

\* what connect4_gameState and connect4_lastUpdated hold after the effect
Saved(gs, stored) == IF Saves(gs) THEN gs ELSE stored
SavedAt(gs, updated) == IF Saves(gs) THEN now ELSE updated

\* ---- wire values ---------------------------------------------------------

\* payload.board: missing, not an array, or an array of rows; a row that is
\* not an array is written NotARow
NoBoard      == [kind |-> "none"]
NotAnArray   == [kind |-> "other"]
Rows(rows)   == [kind |-> "array", rows |-> rows]
NotARow      == <<-1>>

\* A player record on the wire: Go field names or lower-case ones; "" is a
\* missing string field, "none" a missing isBot
WirePlayer(U, u, I, i, B, b) ==
    [kind |-> "object", Username |-> U, username |-> u, ID |-> I, id |-> i,
     IsBot |-> B, isBot |-> b]
GoPlayer(name, bot)    == WirePlayer(name, "", name, "", bot, "none")
LowerPlayer(name, bot) == WirePlayer("", name, "", name, "none", bot)
EmptyObject            == WirePlayer("", "", "", "", "none", "none")

Move(r, c, p) == [kind |-> "move", row |-> r, column |-> c, player |-> p]

\* The payload of a gameState / gameStart frame
Payload(board, turn, Status, status, P1, p1, P2, p2, winner, lastMove) ==
    [ board |-> board, currentTurn |-> turn, Status |-> Status, status |-> status,
      Player1 |-> P1, player1 |-> p1, Player2 |-> P2, player2 |-> p2,
      winner |-> winner, lastMove |-> lastMove ]

\* ---- board normalization (messageHandler) --------------------------------

\* "return row.length === 7 ? row : [...row, ...Array(7 - row.length).fill(0)]":
\* Array(n) throws a RangeError for n < 0
RowThrows(row) == row # NotARow /\ Len(row) > 7

NormalizeRow(row) ==
    IF row = NotARow THEN ZeroRow(7)
    ELSE IF Len(row) = 7 THEN row
    ELSE row \o ZeroRow(7 - Len(row))

\* "while (board.length < 6) board.push(...)" then "board.slice(0, 6)"
PadRows_AsGiven(rows) == rows
PadRows(rows) ==
    [r \in 1..6 |-> IF r <= Len(rows) THEN rows[r] ELSE ZeroRow(7)]

NormalizeBoard_FiveRows(board) ==
    IF board.kind # "array" \/ Len(board.rows) = 0
    THEN [throws |-> FALSE, rows |-> EmptyBoard]
    ELSE [throws |-> FALSE,
          rows |-> [r \in 1..6 |-> IF r <= 5 /\ r <= Len(board.rows)
                                   THEN board.rows[r] ELSE ZeroRow(7)]]

\* throws: the handler leaves through its catch block before any state update
NormalizeBoard(board) ==
    IF board.kind # "array" \/ Len(board.rows) = 0
    THEN [throws |-> FALSE, rows |-> EmptyBoard]
    ELSE IF \E r \in 1..Len(board.rows) : RowThrows(board.rows[r])
    THEN [throws |-> TRUE, rows |-> <<>>]
    ELSE [throws |-> FALSE,
          rows |-> PadRows([r \in 1..Len(board.rows) |-> NormalizeRow(board.rows[r])])]

\* ---- player and status normalization (messageHandler) --------------------

\* a || b on strings
Or(a, b) == IF a # "" THEN a ELSE b

NormalizePlayer(player) ==
    IF player.kind = "none" THEN NoPlayer
    ELSE LET uname    == Or(player.Username, Or(player.username, Or(player.ID, player.id)))
             id       == Or(player.ID, Or(player.id, Or(player.Username, player.username)))
             isBot    == IF player.IsBot # "none" THEN player.IsBot = "true"
                         ELSE IF player.isBot # "none" THEN player.isBot = "true"
                         ELSE FALSE
         IN IF uname = "" /\ id = "" THEN NoPlayer
            ELSE [kind |-> "player", username |-> Or(uname, id),
                  id |-> Or(id, uname), isBot |-> isBot]

\* payload.Player1 || payload.player1
FromPayload(Upper, lower) == IF Upper.kind # "none" THEN Upper ELSE lower

\* normalizedPlayer1 / normalizedPlayer2
PlayerSlot(type, fromPayload, prevPlayer) ==
    LET normalized == NormalizePlayer(fromPayload) IN
    IF fromPayload.kind # "none" /\ normalized.kind # "none" THEN normalized
    ELSE IF type = "gameStart" THEN NoPlayer
    ELSE prevPlayer

FinalStatus(type, normalizedStatus, p1, p2) ==
    IF p1.kind # "none" /\ p2.kind # "none"
    THEN IF type = "gameStart" THEN "in_progress"
         ELSE IF normalizedStatus \in {"completed", "finished"} THEN "completed"
         ELSE IF normalizedStatus \in {"draw", "tie"} THEN "draw"
         ELSE "in_progress"
    ELSE IF normalizedStatus \in {"in_progress", "in-progress", "inProgress"} THEN "in_progress"
         ELSE IF normalizedStatus \in {"completed", "finished"} THEN "completed"
         ELSE IF normalizedStatus \in {"draw", "tie"} THEN "draw"
         ELSE "waiting"

\* ---- newState of the setGameState updater --------------------------------

NewTurn_Flipped(payload, prevState) ==
    IF payload.currentTurn # NoTurn THEN payload.currentTurn ELSE 3 - prevState.currentTurn
NewTurn(payload, prevState) ==
    IF payload.currentTurn # NoTurn THEN payload.currentTurn ELSE prevState.currentTurn

NewWinner(payload, prevState) ==
    IF payload.winner.kind # "none" THEN NormalizePlayer(payload.winner)
    ELSE prevState.winner

NewLastMove(payload, prevState) ==
    IF payload.lastMove.kind # "none" THEN payload.lastMove ELSE prevState.lastMove

NewState(type, payload, board, prevState) ==
    LET p1 == PlayerSlot(type, FromPayload(payload.Player1, payload.player1), prevState.player1)
        p2 == PlayerSlot(type, FromPayload(payload.Player2, payload.player2), prevState.player2)
        normalizedStatus == Or(Or(payload.Status, payload.status), prevState.status)
    IN [ board       |-> board,
         currentTurn |-> NewTurn(payload, prevState),
         status      |-> FinalStatus(type, normalizedStatus, p1, p2),
         winner      |-> NewWinner(payload, prevState),
         player1     |-> p1,
         player2     |-> p2,
         lastMove    |-> NewLastMove(payload, prevState) ]

\* the reconciler state after messageHandler has handled a frame once in the
\* state gs with PendingMove pm
HandledOnce(gs, pm, type, payload) ==
    LET normalized == NormalizeBoard(payload.board) IN
    IF normalized.throws
    THEN [state |-> gs, pending |-> pm]
    ELSE [state |-> NewState(type, payload, normalized.rows, gs), pending |-> NoMove]

\* ---- turn ownership ------------------------------------------------------

GetEffectiveStatus_AsStored(gs) == gs.status
GetEffectiveStatus(gs) ==
    IF gs.player1.kind # "none" /\ gs.player2.kind # "none" /\ gs.status = "waiting"
    THEN "in_progress"
    ELSE gs.status

\* player1?.username: undefined never equals the username prop
UsernameOf(player) == IF player.kind = "none" THEN "" ELSE player.username

\* the isMyTurn effect
MyTurn_StatusIgnored(gs) ==
    \/ gs.currentTurn = 1 /\ LocalUser = UsernameOf(gs.player1)
    \/ gs.currentTurn = 2 /\ LocalUser = UsernameOf(gs.player2)
MyTurn(gs) ==
    /\ GetEffectiveStatus(gs) = "in_progress"
    /\ \/ gs.currentTurn = 1 /\ LocalUser = UsernameOf(gs.player1)
       \/ gs.currentTurn = 2 /\ LocalUser = UsernameOf(gs.player2)

\* ---- friend waiting timeout ------------------------------------------------

\* isWaitingForFriend of the effect: the timeout is armed when it holds
IsWaitingForFriend(gs, currentMode) ==
    /\ gs.status = "waiting"
    /\ currentMode = "friend"
    /\ (gs.player1 = NoPlayer \/ gs.player2 = NoPlayer)

\* stillWaiting of the timeout callback, computed from what storage holds
StillWaiting(stored, mode) ==
    /\ (stored = NoStored \/ stored.status = "waiting")
    /\ mode = "friend"
    /\ (stored = NoStored \/ stored.player1 = NoPlayer \/ stored.player2 = NoPlayer)

\* a player slot of the new state is another object than the one before: a
\* player normalized from the payload is a new object
SlotChanged(fromPayload, prevPlayer, newPlayer) ==
    IF fromPayload.kind # "none" /\ NormalizePlayer(fromPayload).kind # "none"
    THEN TRUE
    ELSE newPlayer # prevPlayer

\* the dependencies [status, player1, player2] of the effect changed
WaitingDepsChanged(payload, prevState, newState) ==
    \/ newState.status # prevState.status
    \/ SlotChanged(FromPayload(payload.Player1, payload.player1),
                   prevState.player1, newState.player1)
    \/ SlotChanged(FromPayload(payload.Player2, payload.player2),
                   prevState.player2, newState.player2)

\* the effect after a reconciled frame: clear the timeout, arm it again when
\* the board still waits for a friend
FriendWaitingEffect_NotCleared(payload, prevState, newState) ==
    friendWaitingTimeoutRef \/ IsWaitingForFriend(newState, storedGameMode)
FriendWaitingEffect(payload, prevState, newState) ==
    IF WaitingDepsChanged(payload, prevState, newState)
    THEN IsWaitingForFriend(newState, storedGameMode)
    ELSE friendWaitingTimeoutRef

TimeoutSeen(name, frames, published) ==
    [ op |-> name, frames |-> frames, published |-> published,
      waiting |-> IsWaitingForFriend(gameState, storedGameMode),
      open |-> websocket # 0 /\ sockets[websocket].readyState = "OPEN" ]

\* the setTimeout of the effect fires (FRIEND_WAITING_TIMEOUT_MS). The effect
\* runs at every open that App shows, so the timeout is armed no earlier than
\* the 100 ms join timer of that open, which has fired before it.
FriendWaitingTimeout ==
    /\ friendWaitingTimeoutRef
    /\ \A h \in 1..Len(sockets) : ~sockets[h].joinTimer
    /\ friendWaitingTimeoutRef' = FALSE
    /\ IF /\ StillWaiting(storedGameState, storedGameMode)
          /\ websocket # 0 /\ sockets[websocket].readyState = "OPEN"
       THEN /\ storedGameMode' = "computer"
            /\ lastUpdated' = now
            /\ botJoinTimer' = TRUE
            /\ lastEvent' = TimeoutSeen("friendWaitingTimeout",
                                        <<[type |-> "cancelWaiting"]>>, {})
       ELSE /\ UNCHANGED <<storedGameMode, lastUpdated, botJoinTimer>>
            /\ lastEvent' = TimeoutSeen("friendWaitingTimeout", <<>>, {})
    /\ UNCHANGED <<appVars, gameVars, storedGameState, storedUsername>>

\* the inner setTimeout (100 ms) fires: join again in computer mode
BotJoinTimerFire ==
    /\ botJoinTimer
    /\ botJoinTimer' = FALSE
    /\ lastEvent' =
          IF websocket # 0 /\ sockets[websocket].readyState = "OPEN"
          THEN TimeoutSeen("botJoinTimer",
                           <<[type |-> "join", username |-> LocalUser,
                              gameMode |-> "computer"]>>, {"game:join"})
          ELSE TimeoutSeen("botJoinTimer", <<>>, {})
    /\ UNCHANGED <<appVars, gameVars, friendWaitingTimeoutRef, storeVars>>

\* ---- messageHandler: gameState / gameStart -------------------------------

\* GameBoard is rendered on the socket of the websocket state, and frames
\* are delivered until that socket is closed
BoardConnected ==
    websocket # 0 /\ sockets[websocket].readyState \in {"OPEN", "CLOSING"}

\* The branch of messageHandler a frame takes. A frame is written by its
\* type; NotJson is a text JSON.parse rejects, JsonNull the text "null"
\* (data.type throws a TypeError); both end in the catch block.
NotJson  == "<not JSON>"
JsonNull == "<null>"

Branch_ReconcileByDefault(type) ==
    CASE type \in {NotJson, JsonNull} -> "catch"
      [] type = "leaderboardUpdate" -> "leaderboardUpdate"
      [] type = "gameFinished" -> "gameFinished"
      [] type = "playAgainUpdate" -> "log"
      [] type = "opponentExited" -> "opponentExited"
      [] type = "error" -> "log"
      [] OTHER -> "reconcile"
Branch(type) ==
    CASE type \in {NotJson, JsonNull} -> "catch"
      [] type = "leaderboardUpdate" -> "leaderboardUpdate"
      [] type = "gameFinished" -> "gameFinished"
      [] type = "playAgainUpdate" -> "log"
      [] type = "opponentExited" -> "opponentExited"
      [] type \in {"gameState", "gameStart"} -> "reconcile"
      [] type = "error" -> "log"
      [] OTHER -> "none"

\* The two effects that dispatch 'leaderboard:update' run when the game has
\* ended and the status or the winner of the rendered state changed; a
\* winner taken from a payload is a new object.
WinnerChanged(payload, prevState) ==
    /\ payload.winner.kind # "none"
    /\ ~(NormalizePlayer(payload.winner).kind = "none" /\ prevState.winner.kind = "none")

EndEffects(payload, prevState, newState) ==
    IF /\ newState.status \in {"completed", "draw"}
       /\ (newState.status # prevState.status \/ WinnerChanged(payload, prevState))
    THEN {"leaderboard:update"} ELSE {}

FrameSeen(type, payload, threw) ==
    [ op |-> "frame", type |-> type, payload |-> payload, threw |-> threw,
      published |-> (IF type = "gameStart" THEN {"game:start"} ELSE {})
                    \cup (IF threw THEN {} ELSE EndEffects(payload, gameState, gameState')),
      board |-> payload.board, currentTurn |-> payload.currentTurn,
      winner |-> payload.winner, lastMove |-> payload.lastMove,
      hadPending |-> pendingMove.kind # "none",
      timerArmed |-> pendingMoveTimeoutRef,
      waitingArmed |-> friendWaitingTimeoutRef,
      \* the effect cleared an armed timeout and armed a new one
      rearmed |-> /\ ~threw /\ friendWaitingTimeoutRef
                  /\ WaitingDepsChanged(payload, gameState, gameState')
                  /\ IsWaitingForFriend(gameState', storedGameMode),
      handled |-> messageHandlers ]   \* calls of messageHandler for the frame

\* The handler setup effect ([websocket, username]) runs on the socket the
\* board is rendered on: the new onmessage calls the one it found, then
\* messageHandler; the cleanup leaves onmessage in place.
MessageEffect ==
    /\ websocket # 0
    /\ messageHandlers < MaxSetups
    /\ messageHandlers' =
          IF sockets[websocket].readyState \in {"CLOSED", "CLOSING"}
          THEN messageHandlers ELSE messageHandlers + 1
    /\ lastEvent' = [op |-> "messageEffect"]
    /\ UNCHANGED <<appVars, gameState, isMyTurn, pendingMove, pendingMoveTimeoutRef,
                   gameFinished, finishedData, isLoadingRematch, unansweredMoves,
                   matchVars, storeVars>>

\* the queued setGameState updaters of n messageHandler calls, applied in order
RECURSIVE Reconciled(_, _, _, _, _)
Reconciled(n, type, payload, board, prevState) ==
    IF n = 0 THEN prevState
    ELSE Reconciled(n - 1, type, payload, board, NewState(type, payload, board, prevState))

\* websocket.onmessage for a gameState / gameStart frame: every chained
\* messageHandler handles it
AuthoritativeFrame(type, payload) ==
    /\ BoardConnected
    /\ messageHandlers >= 1
    /\ Branch(type) = "reconcile"
    /\ LET normalized == NormalizeBoard(payload.board) IN
       IF normalized.throws
       THEN /\ UNCHANGED <<gameState, isMyTurn, pendingMove, storedGameState, lastUpdated,
                            unansweredMoves,
                           friendWaitingTimeoutRef>>
            /\ lastEvent' = FrameSeen(type, payload, TRUE)
       ELSE /\ gameState' = Reconciled(messageHandlers, type, payload,
                                       normalized.rows, gameState)
            /\ pendingMove' = NoMove
            /\ unansweredMoves' = 0
            /\ isMyTurn' = MyTurn(gameState')
            /\ storedGameState' = Saved(gameState', storedGameState)
            /\ lastUpdated' = SavedAt(gameState', lastUpdated)
            /\ friendWaitingTimeoutRef' = FriendWaitingEffect(payload, gameState, gameState')
            /\ lastEvent' = FrameSeen(type, payload, FALSE)
    /\ UNCHANGED <<appVars, pendingMoveTimeoutRef, gameFinished, finishedData,
                   isLoadingRematch, messageHandlers, botJoinTimer, storedGameMode, storedUsername>>

\* ---- messageHandler: the other frames --------------------------------------

NoFinishedData == [kind |-> "none"]

\* payload of a gameFinished frame; "" is a missing winner, FALSE a missing flag
FinishedPayload(winner, isDraw, botWon) ==
    [winner |-> winner, isDraw |-> isDraw, botWon |-> botWon]

\* "winner: payload.winner || null, isDraw: payload.isDraw || false, ..."
FinishedData(payload) ==
    [kind |-> "data", winner |-> payload.winner, isDraw |-> payload.isDraw,
     botWon |-> payload.botWon]

\* data.payload is missing
NoPayload == [kind |-> "none"]

\* payload of a leaderboardUpdate frame, and {}
LeaderboardPayload(winner, isDraw) ==
    [kind |-> "object", winner |-> winner, isDraw |-> isDraw]
EmptyDetail == [kind |-> "empty"]

\* "const detail = data.payload || {}"
Detail_AlwaysEmpty(payload) == EmptyDetail
Detail(payload) == IF payload = NoPayload THEN EmptyDetail ELSE payload

\* new CustomEvent(name, { detail })
CustomEvent(name, detail) == [name |-> name, detail |-> detail]

OtherSeen(type, payload, threw, events) ==
    [ op |-> "frame", type |-> type, payload |-> payload, threw |-> threw,
      events |-> events,
      published |-> {events[i].name : i \in 1..Len(events)},
      board |-> NoBoard, currentTurn |-> NoTurn, winner |-> NoPlayer,
      lastMove |-> NoMove, hadPending |-> pendingMove.kind # "none",
      timerArmed |-> pendingMoveTimeoutRef,
      waitingArmed |-> friendWaitingTimeoutRef, handled |-> messageHandlers ]

\* websocket.onmessage for a gameFinished frame
GameFinishedFrame(type, payload) ==
    /\ BoardConnected
    /\ messageHandlers >= 1
    /\ Branch(type) = "gameFinished"
    /\ finishedData' = FinishedData(payload)
    /\ gameFinished' = TRUE
    /\ lastEvent' = OtherSeen(type, payload, FALSE, <<>>)
    /\ UNCHANGED <<appVars, gameState, isMyTurn, pendingMove, pendingMoveTimeoutRef,
                   isLoadingRematch, messageHandlers, unansweredMoves, matchVars,
                   storeVars>>

\* websocket.onmessage for an opponentExited frame
OpponentExitedFrame(type) ==
    /\ BoardConnected
    /\ messageHandlers >= 1
    /\ Branch(type) = "opponentExited"
    /\ gameFinished' = TRUE
    /\ finishedData' = FinishedData(FinishedPayload("", FALSE, FALSE))
    /\ lastEvent' = OtherSeen(type, NoPayload, FALSE, <<>>)
    /\ UNCHANGED <<appVars, gameState, isMyTurn, pendingMove, pendingMoveTimeoutRef,
                   isLoadingRematch, messageHandlers, unansweredMoves, matchVars,
                   storeVars>>

\* the popup GameFinished is rendered ("gameFinished && finishedData") and
\* its Play Again button is enabled ("disabled={isLoading || ...}")
PlayAgainEnabled == gameFinished /\ finishedData # NoFinishedData /\ ~isLoadingRematch

\* handleGameFinishedPlayAgain: the click on Play Again
HandleGameFinishedPlayAgain(sendThrows) ==
    /\ websocket # 0
    /\ PlayAgainEnabled
    /\ LET open == sockets[websocket].readyState = "OPEN" IN
       /\ isLoadingRematch' = (open /\ ~sendThrows)
       /\ lastEvent' = [op |-> "playAgain", sent |-> open /\ ~sendThrows,
                        frames |-> IF open /\ ~sendThrows
                                   THEN <<[type |-> "playAgain"]>> ELSE <<>>]
    /\ UNCHANGED <<appVars, gameState, isMyTurn, pendingMove, pendingMoveTimeoutRef,
                   gameFinished, finishedData, messageHandlers, unansweredMoves,
                   matchVars, storeVars>>

\* websocket.onmessage for a leaderboardUpdate frame
LeaderboardUpdateFrame(type, payload) ==
    /\ BoardConnected
    /\ messageHandlers >= 1
    /\ Branch(type) = "leaderboardUpdate"
    /\ lastEvent' = OtherSeen(type, payload, FALSE,
                              <<CustomEvent("leaderboard:update", Detail(payload))>>)
    /\ UNCHANGED <<appVars, gameVars, matchVars, storeVars>>

\* websocket.onmessage for a frame that only logs (playAgainUpdate, error),
\* that no branch takes, or that ends in the catch block
IgnoredFrame(type) ==
    /\ BoardConnected
    /\ messageHandlers >= 1
    /\ Branch(type) \in {"log", "none", "catch"}
    /\ lastEvent' = OtherSeen(type, NoPayload, Branch(type) = "catch", <<>>)
    /\ UNCHANGED <<appVars, gameVars, matchVars, storeVars>>

\* ---- handleColumnClick ---------------------------------------------------

\* "let row = 5; while (row >= 0 && board[row] && board[row][col] !== 0) row--"
RECURSIVE ScanUp(_, _, _)
ScanUp(board, col, row) ==
    IF row >= 0 /\ board[row + 1][col + 1] # 0
    THEN ScanUp(board, col, row - 1)
    ELSE row

LowestEmptyRow_TopRow(board, col) == 0
LowestEmptyRow(board, col) == ScanUp(board, col, 5)

\* "const currentPlayer = isPlayer1 ? 1 : 2"
CurrentPlayer(gs) == IF LocalUser = UsernameOf(gs.player1) THEN 1 ELSE 2

\* the optimistic setGameState updater
OptimisticState_TurnKept(prev, row, col, currentPlayer) ==
    [prev EXCEPT
        !.board = [prev.board EXCEPT ![row + 1][col + 1] = currentPlayer],
        !.lastMove = Move(row, col, currentPlayer)]
OptimisticState(prev, row, col, currentPlayer) ==
    [prev EXCEPT
        !.board = IF prev.board[row + 1][col + 1] = 0
                  THEN [prev.board EXCEPT ![row + 1][col + 1] = currentPlayer]
                  ELSE prev.board,
        !.lastMove = Move(row, col, currentPlayer),
        !.currentTurn = 3 - currentPlayer]

\* the setGameState updater of the catch block
RolledBack_BoardOnly(prev, prevBoard, prevLastMove, prevCurrentTurn) ==
    [prev EXCEPT !.board = prevBoard]
RolledBack_EmptyBoard(prev, prevBoard, prevLastMove, prevCurrentTurn) ==
    [prev EXCEPT !.board = EmptyBoard, !.lastMove = prevLastMove,
                 !.currentTurn = prevCurrentTurn]
RolledBack(prev, prevBoard, prevLastMove, prevCurrentTurn) ==
    [prev EXCEPT !.board = prevBoard, !.lastMove = prevLastMove,
                 !.currentTurn = prevCurrentTurn]

ClickSeen(col, accepted, sent, failed) ==
    [ op |-> "click", column |-> col, accepted |-> accepted, sent |-> sent,
      frames |-> IF sent THEN <<[type |-> "move", column |-> col]>> ELSE <<>>,
      sendFailed |-> failed, hadPending |-> pendingMove.kind # "none",
      timerArmed |-> pendingMoveTimeoutRef ]

\* handleColumnClick(col); sendThrows: websocket.send throws
HandleColumnClick(col, sendThrows) ==
    /\ websocket # 0
    /\ LET row == LowestEmptyRow(gameState.board, col)
           currentPlayer == CurrentPlayer(gameState)
           optimistic == OptimisticState(gameState, row, col, currentPlayer)
       IN
       IF \/ ~isMyTurn \/ GetEffectiveStatus(gameState) # "in_progress"
          \/ row < 0
          \/ sockets[websocket].readyState # "OPEN"
       THEN /\ UNCHANGED <<gameVars, storedGameState, lastUpdated>>
            /\ lastEvent' = ClickSeen(col, FALSE, FALSE, FALSE)
       ELSE IF sendThrows
       THEN /\ gameState' = RolledBack(optimistic, gameState.board,
                                       gameState.lastMove, gameState.currentTurn)
            /\ pendingMove' = NoMove
            /\ pendingMoveTimeoutRef' = FALSE
            /\ UNCHANGED unansweredMoves
            /\ isMyTurn' = MyTurn(gameState')
            /\ storedGameState' = Saved(gameState', storedGameState)
            /\ lastUpdated' = SavedAt(gameState', lastUpdated)
            /\ lastEvent' = ClickSeen(col, TRUE, FALSE, TRUE)
       ELSE /\ gameState' = optimistic
            /\ pendingMove' = [kind |-> "move", row |-> row, col |-> col,
                               player |-> currentPlayer]
            /\ pendingMoveTimeoutRef' = TRUE
            /\ unansweredMoves' = IF unansweredMoves < MaxUnanswered
                                  THEN unansweredMoves + 1 ELSE unansweredMoves
            /\ isMyTurn' = MyTurn(gameState')
            /\ storedGameState' = Saved(gameState', storedGameState)
            /\ lastUpdated' = SavedAt(gameState', lastUpdated)
            /\ lastEvent' = ClickSeen(col, TRUE, TRUE, FALSE)
    /\ UNCHANGED <<appVars, gameFinished, finishedData, isLoadingRematch,
                   messageHandlers, matchVars, storedGameMode, storedUsername>>

\* the setTimeout of handleColumnClick (PENDING_MOVE_TIMEOUT_MS) fires
PendingMoveTimeout_KeepsPending ==
    /\ pendingMoveTimeoutRef
    /\ pendingMoveTimeoutRef' = FALSE
    /\ lastEvent' = [op |-> "pendingTimeout", hadPending |-> pendingMove.kind # "none"]
    /\ UNCHANGED <<appVars, gameState, isMyTurn, pendingMove, gameFinished, finishedData,
                   isLoadingRematch, messageHandlers, unansweredMoves, matchVars, storeVars>>
PendingMoveTimeout ==
    /\ pendingMoveTimeoutRef
    /\ pendingMove' = NoMove
    /\ pendingMoveTimeoutRef' = FALSE
    /\ lastEvent' = [op |-> "pendingTimeout", hadPending |-> pendingMove.kind # "none"]
    /\ UNCHANGED <<appVars, gameState, isMyTurn, gameFinished, finishedData,
                   isLoadingRematch, messageHandlers, unansweredMoves, matchVars, storeVars>>

\* ---- frames the model delivers -------------------------------------------

Alice == GoPlayer("alice", "false")
Bob   == LowerPlayer("bob", "false")

BoardOf(cells) ==
    [r \in 1..6 |-> [c \in 1..7 |->
        IF <<r - 1, c - 1>> \in DOMAIN cells THEN cells[<<r - 1, c - 1>>] ELSE 0]]

BoardA == BoardOf(<<5, 3>> :> 1)
BoardB == BoardOf(<<5, 3>> :> 1 @@ <<5, 4>> :> 2)
\* column 3 is full
FullColumnBoard ==
    BoardOf(<<5, 3>> :> 1 @@ <<4, 3>> :> 2 @@ <<3, 3>> :> 1 @@ <<2, 3>> :> 2
            @@ <<1, 3>> :> 1 @@ <<0, 3>> :> 2)
\* a board one of whose rows has 8 cells
LongRowBoard == [r \in 1..6 |-> IF r = 1 THEN ZeroRow(8) ELSE BoardB[r]]

Payloads ==
    { \* {} : an empty payload
      Payload(NoBoard, NoTurn, "", "", NoPlayer, NoPlayer, NoPlayer, NoPlayer, NoPlayer, NoMove),
      \* waiting for an opponent
      Payload(Rows(EmptyBoard), 1, "waiting", "", Alice, NoPlayer, NoPlayer, NoPlayer, NoPlayer, NoMove),
      \* a game that starts (also the rematch): no winner, no lastMove
      Payload(Rows(EmptyBoard), 1, "in_progress", "", Alice, NoPlayer, NoPlayer, Bob, NoPlayer, NoMove),
      \* both players, the status still reads waiting
      Payload(Rows(EmptyBoard), 1, "", "waiting", Alice, NoPlayer, NoPlayer, Bob, NoPlayer, NoMove),
      \* the server's echo of alice's move on column 3
      Payload(Rows(BoardA), 2, "in_progress", "", Alice, NoPlayer, NoPlayer, Bob, NoPlayer, Move(5, 3, 1)),
      \* bob's answer on column 4
      Payload(Rows(BoardB), 1, "in_progress", "", Alice, NoPlayer, NoPlayer, Bob, NoPlayer, Move(5, 4, 2)),
      \* a board and nothing else
      Payload(Rows(BoardA), NoTurn, "", "", NoPlayer, NoPlayer, NoPlayer, NoPlayer, NoPlayer, NoMove),
      \* the end of a game
      Payload(Rows(BoardB), 1, "completed", "", Alice, NoPlayer, NoPlayer, Bob, Bob, Move(5, 4, 2)),
      \* column 3 is full, alice is to move
      Payload(Rows(FullColumnBoard), 1, "in_progress", "", Alice, NoPlayer, NoPlayer, Bob, NoPlayer, Move(0, 3, 2)),
      \* a row of 8 cells
      Payload(Rows(LongRowBoard), 1, "in_progress", "", Alice, NoPlayer, NoPlayer, Bob, NoPlayer, Move(5, 4, 2)) }

FrameTypes ==
    {"gameState", "gameStart", "gameFinished", "opponentExited", "leaderboardUpdate",
     "playAgainUpdate", "error", "chat", NotJson, JsonNull}

FinishedPayloads ==
    { FinishedPayload("alice", FALSE, FALSE), FinishedPayload("", TRUE, FALSE),
      FinishedPayload("bot", FALSE, TRUE), FinishedPayload("", FALSE, FALSE) }

LeaderboardPayloads ==
    { NoPayload, LeaderboardPayload("alice", FALSE), LeaderboardPayload("", TRUE) }

Columns == 0..6

-----------------------------------------------------------------------------
(* The open and the close of a socket: App puts GameBoard on the socket and
   takes it off *)

\* App renders GameBoard on the socket of its websocket state while that
\* socket is open
BoardShown ==
    mounted /\ websocket # 0 /\ sockets[websocket].readyState = "OPEN"

\* GameBoard mounts: getInitialState() and the effects of its first render
BoardMount ==
    /\ gameState' = GetInitialState(storedGameState)
    /\ isMyTurn' = MyTurn(gameState')
    /\ pendingMove' = NoMove
    /\ pendingMoveTimeoutRef' = FALSE
    /\ gameFinished' = FALSE
    /\ finishedData' = NoFinishedData
    /\ isLoadingRematch' = FALSE
    /\ messageHandlers' = 1
    /\ unansweredMoves' = 0
    /\ storedGameState' = Saved(gameState', storedGameState)
    /\ lastUpdated' = SavedAt(gameState', lastUpdated)
    /\ friendWaitingTimeoutRef' = IsWaitingForFriend(gameState', storedGameMode)
    /\ UNCHANGED <<botJoinTimer, storedGameMode, storedUsername>>

\* GameBoard gets another socket as its websocket prop: the effects that
\* depend on it run again
BoardMoved ==
    /\ messageHandlers' = 1
    /\ friendWaitingTimeoutRef' = IsWaitingForFriend(gameState, storedGameMode)
    /\ UNCHANGED <<gameState, isMyTurn, pendingMove, pendingMoveTimeoutRef, gameFinished,
                   finishedData, isLoadingRematch, unansweredMoves, botJoinTimer,
                   storeVars>>

\* ws.onopen: setWebsocket(ws) puts GameBoard on the socket
WsOpen(h) ==
    /\ h \in 1..Len(sockets)
    /\ sockets[h].readyState = "CONNECTING"
    /\ LET s == sockets[h].session IN
       /\ sockets' = [sockets EXCEPT ![h].readyState = "OPEN",
                                     ![h].opened = TRUE,
                                     ![h].joinTimer = TRUE]
       /\ sessions' = [sessions EXCEPT ![s].retryCount = 0,
                                       ![s].retryDelay = INITIAL_RETRY_DELAY,
                                       ![s].scheduled = 0,
                                       ![s].prevFailed = <<>>]
    /\ isConnected' = IF mounted THEN TRUE ELSE isConnected
    /\ websocket' = IF mounted THEN h ELSE websocket
    /\ lastEvent' = [op |-> "open", ws |-> h,
                     render |-> IF ~mounted THEN "none"
                                ELSE IF BoardShown THEN "moved" ELSE "mount"]
    /\ IF ~mounted THEN UNCHANGED <<gameVars, matchVars, storeVars>>
       ELSE IF BoardShown THEN BoardMoved
       ELSE BoardMount
    /\ UNCHANGED <<now, username, envWs, host, gameMode, didAutoReconnect, mounted,
                   isUnloadingRef, activeWsRef>>

\* the close event of socket h: readyState becomes CLOSED and ws.onclose runs
WsClose(h) ==
    /\ h \in 1..Len(sockets)
    /\ sockets[h].readyState # "CLOSED"
    /\ sockets' = [sockets EXCEPT ![h] = Settle([@ EXCEPT !.readyState = "CLOSED"])]
    /\ LET s == sockets[h].session
           failed == IF sockets[h].opened THEN <<>> ELSE sockets[h].url
           seen == [op |-> "close", ws |-> h, session |-> s,
                    tracked |-> activeWsRef = h,
                    reached |-> OnCloseCalls(CloseWrappers(h)),
                    used |-> sessions[s].scheduled,
                    failedUrl |-> failed, prevFailedUrl |-> sessions[s].prevFailed]
           ss == [sessions EXCEPT ![s].prevFailed = failed]
       IN
       IF seen.reached = 0
       THEN /\ UNCHANGED <<isConnected, websocket, activeWsRef, sessions>>
            /\ lastEvent' = seen @@ [retry |-> FALSE, alert |-> FALSE]
       ELSE IF OnCloseIgnored(h)
       THEN /\ UNCHANGED <<isConnected, websocket, activeWsRef>>
            /\ sessions' = ss
            /\ lastEvent' = seen @@ [retry |-> FALSE, alert |-> FALSE]
       ELSE /\ isConnected' = IF mounted THEN FALSE ELSE isConnected
            /\ websocket' = IF mounted THEN 0 ELSE websocket
            /\ activeWsRef' = 0
            /\ IF MayRetry(sessions[s].retryCount)
               THEN sessions' = [ss EXCEPT
                        ![s].retryCount = @ + 1,
                        ![s].retryDelay = @ * 2,
                        ![s].timer = sessions[s].retryDelay * 2,
                        ![s].scheduled = @ + 1]
               ELSE sessions' = [ss EXCEPT ![s].alerts = @ + 1]
            /\ lastEvent' = seen @@ [retry |-> sessions'[s].timer # 0,
                                     alert |-> sessions'[s].alerts > sessions[s].alerts]
    \* setWebsocket(null) unmounts GameBoard: the cleanup of the friend
    \* waiting effect clears its timeout
    /\ friendWaitingTimeoutRef' =
          IF websocket' = 0 /\ websocket # 0 THEN FALSE ELSE friendWaitingTimeoutRef
    /\ UNCHANGED <<now, username, envWs, host, gameMode, didAutoReconnect, mounted,
                   isUnloadingRef, gameVars, botJoinTimer, storeVars>>

-----------------------------------------------------------------------------
(* SessionStore (localStorage.ts), Login and the page life of App *)

\* 24 * 60 * 60 * 1000
MaxAge == 86400000

\* isStoredDataValid()
IsStoredDataValid(updated, t) ==
    IF updated = NoTime THEN FALSE ELSE (t - updated) < MaxAge

\* loadUsername()
LoadUsername(stored, updated, t) ==
    IF ~IsStoredDataValid(updated, t) THEN "" ELSE stored

\* loadGameMode()
LoadGameMode(stored) ==
    IF stored = "friend" \/ stored = "computer" THEN stored ELSE "none"

\* what is typed into the username field: a sequence of characters
WordChars == {"a", "b", "l", "i", "c", "e", "o", "7", "_", "-"}

RECURSIVE Text(_)
Text(chars) == IF chars = <<>> THEN "" ELSE Head(chars) \o Text(Tail(chars))

\* username.trim()
RECURSIVE TrimStart(_)
TrimStart(chars) ==
    IF chars # <<>> /\ Head(chars) = " " THEN TrimStart(Tail(chars)) ELSE chars

\* the validation of handleSubmit: the error it sets, "" when it calls onLogin
LoginError(chars) ==
    IF TrimStart(chars) = <<>> THEN "Username is required"
    ELSE IF Len(chars) < 3 \/ Len(chars) > 20
         THEN "Username must be between 3 and 20 characters"
    ELSE IF \E i \in 1..Len(chars) : chars[i] \notin WordChars
         THEN "Username can only contain letters, numbers, underscores, and hyphens"
    ELSE ""

\* the screen App renders
Screen ==
    IF username = "" THEN "login"
    ELSE IF gameMode = "none" THEN "mode"
    ELSE IF websocket = 0 THEN "connecting"
    ELSE IF sockets[websocket].readyState = "OPEN" THEN "board"
    ELSE "connecting"

\* Login.handleSubmit with chars typed, then handleLogin and the save effect
\* ([username])
HandleSubmit(chars) ==
    /\ mounted /\ didAutoReconnect
    /\ Screen = "login"
    /\ UNCHANGED <<now, envWs, host, gameMode, didAutoReconnect, mounted, isUnloadingRef,
                   activeWsRef, websocket, isConnected, sockets, sessions, gameVars,
                   matchVars, storedGameState, storedGameMode>>
    /\ LET error == LoginError(chars) IN
       /\ IF error = ""
          THEN /\ username' = Text(chars)
               /\ storedUsername' = Text(chars)
               /\ lastUpdated' = now
          ELSE UNCHANGED <<username, storedUsername, lastUpdated>>
       /\ lastEvent' = [op |-> "submit", typed |-> chars, error |-> error,
                        screen |-> Screen']

\* A page load with the given items in sessionStorage: the useState
\* initialisers of App and the save effects of its first render
PageLoad(su, sm, updated) ==
    /\ username' = LoadUsername(su, updated, now)
    /\ gameMode' = LoadGameMode(sm)
    /\ storedUsername' = su
    /\ storedGameMode' = sm
    /\ lastUpdated' = IF username' # "" \/ gameMode' # "none" THEN now ELSE updated
    /\ didAutoReconnect' = FALSE
    /\ mounted' = TRUE
    /\ isUnloadingRef' = FALSE
    /\ activeWsRef' = 0
    /\ websocket' = 0
    /\ isConnected' = FALSE
    /\ sockets' = <<>>
    /\ sessions' = <<>>
    /\ gameState' = InitialGameState
    /\ isMyTurn' = FALSE
    /\ pendingMove' = NoMove
    /\ pendingMoveTimeoutRef' = FALSE
    /\ gameFinished' = FALSE
    /\ finishedData' = NoFinishedData
    /\ isLoadingRematch' = FALSE
    /\ messageHandlers' = 0
    /\ unansweredMoves' = 0
    /\ friendWaitingTimeoutRef' = FALSE
    /\ botJoinTimer' = FALSE
    /\ UNCHANGED <<now, envWs, host>>

\* what a page load reports: the values the loaders returned
LoadSeen(name, su, sm, updated) ==
    [op |-> name, username |-> username', gameMode |-> gameMode', screen |-> Screen',
     storedUsername |-> su, storedGameMode |-> sm, age |-> IF updated = NoTime THEN NoTime
                                                            ELSE now - updated]

\* handleExit of GameBoard: clearGameState(), clearGameMode(), then
\* window.location.reload()
HandleExit ==
    /\ mounted /\ Screen = "board"
    /\ storedGameState' = NoStored
    /\ PageLoad(storedUsername, "none", NoTime)
    /\ lastEvent' = LoadSeen("handleExit", storedUsername, "none", NoTime)

\* the user reloads the page
Reload ==
    /\ mounted /\ didAutoReconnect
    /\ UNCHANGED storedGameState
    /\ PageLoad(storedUsername, storedGameMode, lastUpdated)
    /\ lastEvent' = LoadSeen("reload", storedUsername, storedGameMode, lastUpdated)

\* time passes
TickMs == 43200000
MaxTicks == 3

Tick ==
    /\ now < MaxTicks * TickMs
    /\ now' = now + TickMs
    /\ lastEvent' = [op |-> "tick"]
    /\ UNCHANGED <<username, envWs, host, gameMode, didAutoReconnect, mounted,
                   isUnloadingRef, activeWsRef, websocket, isConnected, sockets, sessions,
                   gameVars, matchVars, storeVars>>

\* what may be typed into the username field
LongName == [i \in 1..21 |-> "a"]
Typed == { <<"a", "b">>, <<"b", "o", "b">>, <<"a", "l", "i", "c", "e">>,
           <<"b", "_", "7", "-">>, <<" ", " ", " ">>, <<"a", " ", "b">>, <<>>, LongName }

-----------------------------------------------------------------------------
(* Specification of the connection manager *)

InitApp ==
    /\ now = 0
    /\ username = LocalUser                          \* loadUsername()
    /\ envWs \in EnvChoices
    /\ host \in HostChoices
    /\ gameMode \in {"none", "friend", "computer"}   \* loadGameMode()
    /\ didAutoReconnect = FALSE
    /\ mounted = TRUE
    /\ isUnloadingRef = FALSE
    /\ activeWsRef = 0
    /\ websocket = 0
    /\ isConnected = FALSE
    /\ sockets = <<>>
    /\ sessions = <<>>

InitGame ==
    /\ gameState = InitialGameState
    /\ isMyTurn = FALSE
    /\ pendingMove = NoMove
    /\ pendingMoveTimeoutRef = FALSE
    /\ gameFinished = FALSE
    /\ finishedData = NoFinishedData
    /\ isLoadingRematch = FALSE
    /\ messageHandlers = 0
    /\ unansweredMoves = 0
    /\ friendWaitingTimeoutRef = FALSE
    /\ botJoinTimer = FALSE
    /\ storedGameState = NoStored
    /\ storedGameMode = gameMode
    /\ storedUsername = username
    /\ lastUpdated = IF username # "" \/ gameMode # "none" THEN now ELSE NoTime

InitConn ==
    /\ InitApp
    /\ InitGame
    /\ lastEvent = [op |-> "init"]

NextConn ==
    \/ AutoReconnectEffect
    \/ \E mode \in {"friend", "computer"} : HandleModeSelection(mode)
    \/ \E h \in 1..MaxSockets : WsOpen(h)
    \/ \E h \in 1..MaxSockets : JoinTimerFire(h)
    \/ \E h \in 1..MaxSockets : WsError(h)
    \/ \E h \in 1..MaxSockets : WsClosing(h)
    \/ \E h \in 1..MaxSockets : WsClose(h)
    \/ \E s \in 1..MaxSessions : RetryTimerFire(s)
    \/ Unmount
    \/ HandleBeforeUnload

SpecConn == InitConn /\ [][NextConn]_vars

-----------------------------------------------------------------------------
(* Specification of the session: login, mode selection, exit and reload in one
   tab, whose sessionStorage starts empty *)

InitSession ==
    /\ now = 0
    /\ username = ""
    /\ envWs = NoEnv
    /\ host = "localhost"
    /\ gameMode = "none"
    /\ didAutoReconnect = FALSE
    /\ mounted = TRUE
    /\ isUnloadingRef = FALSE
    /\ activeWsRef = 0
    /\ websocket = 0
    /\ isConnected = FALSE
    /\ sockets = <<>>
    /\ sessions = <<>>
    /\ InitGame
    /\ lastEvent = [op |-> "init"]

NextSession ==
    \/ AutoReconnectEffect
    \/ \E chars \in Typed : HandleSubmit(chars)
    \/ \E mode \in {"friend", "computer"} : HandleModeSelection(mode)
    \/ \E h \in 1..MaxSockets : WsOpen(h)
    \/ \E h \in 1..MaxSockets : JoinTimerFire(h)
    \/ HandleExit
    \/ Reload
    \/ Tick

SpecSession == InitSession /\ [][NextSession]_vars

-----------------------------------------------------------------------------
(* Specification of the reconciler: the board on an open socket *)

\* App after the auto reconnect with a stored username and mode, the open of
\* its socket and the join
InitAppConnected ==
    /\ now = 0
    /\ username = LocalUser
    /\ envWs = NoEnv
    /\ host = "localhost"
    /\ gameMode \in {"friend", "computer"}
    /\ didAutoReconnect = TRUE
    /\ mounted = TRUE
    /\ isUnloadingRef = FALSE
    /\ activeWsRef = 1
    /\ websocket = 1
    /\ isConnected = TRUE
    /\ sockets = <<[NewSocket(1, 0) EXCEPT !.readyState = "OPEN", !.opened = TRUE,
                                           !.joinSent = 1]>>
    /\ sessions = <<[NewSession(gameMode) EXCEPT !.createdWs = 1]>>

\* GameBoard mounted on that socket with stored in sessionStorage: the state
\* is restored and the effects of the first render have run
InitBoard(stored) ==
    /\ InitAppConnected
    /\ gameState = GetInitialState(stored)
    /\ isMyTurn = MyTurn(gameState)
    /\ pendingMove = NoMove
    /\ pendingMoveTimeoutRef = FALSE
    /\ gameFinished = FALSE
    /\ finishedData = NoFinishedData
    /\ isLoadingRematch = FALSE
    /\ messageHandlers = 1
    /\ unansweredMoves = 0
    /\ storedGameMode = gameMode
    /\ storedUsername = username
    /\ storedGameState = Saved(gameState, stored)
    /\ lastUpdated = now
    /\ friendWaitingTimeoutRef = IsWaitingForFriend(gameState, storedGameMode)
    /\ botJoinTimer = FALSE

InitGameSpec ==
    /\ InitBoard(NoStored)
    /\ gameMode = "friend"
    /\ lastEvent = [op |-> "init"]

NextGame ==
    \/ \E type \in FrameTypes, payload \in Payloads :
          AuthoritativeFrame(type, payload)
    \/ \E col \in Columns, sendThrows \in BOOLEAN : HandleColumnClick(col, sendThrows)
    \/ PendingMoveTimeout

SpecGame == InitGameSpec /\ [][NextGame]_vars

-----------------------------------------------------------------------------
(* Specification of the router: every kind of frame on an open socket *)

\* the frames of one short game: waiting, started, ended; and a game in
\* which the local player is the second player and is to move
RouterPayloads ==
    { Payload(Rows(EmptyBoard), 1, "waiting", "", Alice, NoPlayer, NoPlayer, NoPlayer, NoPlayer, NoMove),
      Payload(Rows(BoardA), 2, "in_progress", "", NoPlayer, Bob, Alice, NoPlayer, NoPlayer, Move(5, 3, 1)),
      Payload(Rows(EmptyBoard), 1, "in_progress", "", Alice, NoPlayer, NoPlayer, Bob, NoPlayer, NoMove),
      Payload(Rows(BoardB), 1, "completed", "", Alice, NoPlayer, NoPlayer, Bob, Bob, Move(5, 4, 2)) }

RouterColumns == {3}

\* what sessionStorage holds when the board mounts: nothing, the game that
\* ended before, or a game with both players whose status reads waiting
StoredEnded ==
    [ board |-> BoardB, currentTurn |-> 1, status |-> "completed",
      winner |-> NormalizePlayer(Bob), player1 |-> NormalizePlayer(Alice),
      player2 |-> NormalizePlayer(Bob), lastMove |-> Move(5, 4, 2) ]
StoredWaitingBoth ==
    [ board |-> BoardB, currentTurn |-> 1, status |-> "waiting",
      winner |-> NoPlayer, player1 |-> NormalizePlayer(Alice),
      player2 |-> NormalizePlayer(Bob), lastMove |-> Move(5, 4, 2) ]
StoredStates == {NoStored, StoredEnded, StoredWaitingBoth}

NextRouter ==
    \/ \E type \in FrameTypes, payload \in RouterPayloads :
          AuthoritativeFrame(type, payload)
    \/ \E type \in FrameTypes, payload \in FinishedPayloads :
          GameFinishedFrame(type, payload)
    \/ \E type \in FrameTypes : OpponentExitedFrame(type)
    \/ \E type \in FrameTypes, payload \in LeaderboardPayloads :
          LeaderboardUpdateFrame(type, payload)
    \/ \E type \in FrameTypes : IgnoredFrame(type)
    \/ \E col \in RouterColumns, sendThrows \in BOOLEAN : HandleColumnClick(col, sendThrows)
    \/ \E sendThrows \in BOOLEAN : HandleGameFinishedPlayAgain(sendThrows)
    \/ PendingMoveTimeout

SpecRouter == InitGameSpec /\ [][NextRouter]_vars

-----------------------------------------------------------------------------
(* Specification of the pending timeout: the router with the timer of
   handleColumnClick. A timer that is armed and not cleared fires: the
   browser runs the callback of setTimeout once its delay has passed. *)

SpecPending == InitGameSpec /\ [][NextRouter]_vars /\ WF_vars(PendingMoveTimeout)

-----------------------------------------------------------------------------
(* Specification of the board shape: the board mounts on what sessionStorage
   holds and receives boards of every shape *)

\* boards on the wire: missing, not an array, no row, 2 rows, 7 rows, rows of
\* 3 cells, a row that is not an array, a row of 8 cells, a 7th row of 8
\* cells, and a 6x7 board
ShapeBoards ==
    { NoBoard, NotAnArray, Rows(<<>>),
      Rows(<<BoardA[6], BoardB[6]>>),
      Rows([r \in 1..7 |-> IF r = 7 THEN BoardB[6] ELSE BoardA[r]]),
      Rows([r \in 1..6 |-> <<1, 2, 1>>]),
      Rows([r \in 1..6 |-> IF r = 2 THEN NotARow ELSE BoardA[r]]),
      Rows(LongRowBoard),
      Rows([r \in 1..7 |-> IF r = 7 THEN ZeroRow(8) ELSE BoardA[r]]),
      Rows(BoardB) }

ShapePayloads ==
    { Payload(board, 1, "in_progress", "", Alice, NoPlayer, NoPlayer, Bob, NoPlayer, NoMove) :
         board \in ShapeBoards }

InitShape ==
    /\ \E stored \in StoredStates : InitBoard(stored)
    /\ gameMode = "friend"
    /\ lastEvent = [op |-> "init"]

NextShape ==
    \/ \E type \in FrameTypes, payload \in ShapePayloads :
          AuthoritativeFrame(type, payload)
    \/ \E col \in RouterColumns, sendThrows \in BOOLEAN : HandleColumnClick(col, sendThrows)
    \/ PendingMoveTimeout

SpecShape == InitShape /\ [][NextShape]_vars

-----------------------------------------------------------------------------
(* Specification of the handler setup: the effect runs again on the socket *)

NextSetup ==
    \/ MessageEffect
    \/ \E type \in FrameTypes, payload \in RouterPayloads :
          AuthoritativeFrame(type, payload)
    \/ \E type \in FrameTypes : IgnoredFrame(type)
    \/ WsClose(1)

SpecSetup == InitGameSpec /\ [][NextSetup]_vars

-----------------------------------------------------------------------------
(* Specification of the matchmaking timer: the board mounts on what          *)
(* sessionStorage holds, in either mode                                      *)

InitMatch ==
    /\ \E stored \in StoredStates, mode \in {"friend", "computer"} :
          /\ InitBoard(stored)
          /\ gameMode = mode
    /\ lastEvent = [op |-> "init"]

NextMatch ==
    \/ \E type \in FrameTypes, payload \in RouterPayloads :
          AuthoritativeFrame(type, payload)
    \/ \E col \in RouterColumns, sendThrows \in BOOLEAN : HandleColumnClick(col, sendThrows)
    \/ FriendWaitingTimeout
    \/ BotJoinTimerFire
    \/ WsClosing(1)

SpecMatch == InitMatch /\ [][NextMatch]_vars

-----------------------------------------------------------------------------
(* Specification of the rejoin: the board waits for a friend, and its socket
   is lost and opened again by the retries of App *)

RejoinPayloads ==
    { Payload(Rows(EmptyBoard), 1, "waiting", "", Alice, NoPlayer, NoPlayer, NoPlayer, NoPlayer, NoMove) }

NextRejoin ==
    \/ \E type \in FrameTypes, payload \in RejoinPayloads :
          AuthoritativeFrame(type, payload)
    \/ FriendWaitingTimeout
    \/ BotJoinTimerFire
    \/ \E h \in 1..MaxSockets : WsClose(h)
    \/ \E s \in 1..MaxSessions : RetryTimerFire(s)
    \/ \E h \in 1..MaxSockets : WsOpen(h)
    \/ \E h \in 1..MaxSockets : JoinTimerFire(h)

SpecRejoin == InitGameSpec /\ [][NextRejoin]_vars

-----------------------------------------------------------------------------
(* Specification of the reload: a game on an open socket, and the page is
   loaded again on what sessionStorage holds *)

\* waiting with one player, started with one player, a move, the end
ReloadPayloads ==
    { Payload(Rows(EmptyBoard), 1, "waiting", "", Alice, NoPlayer, NoPlayer, NoPlayer, NoPlayer, NoMove),
      Payload(Rows(EmptyBoard), 1, "in_progress", "", Alice, NoPlayer, NoPlayer, NoPlayer, NoPlayer, NoMove),
      Payload(Rows(BoardA), 2, "in_progress", "", Alice, NoPlayer, NoPlayer, Bob, NoPlayer, Move(5, 3, 1)),
      Payload(Rows(BoardB), 1, "completed", "", Alice, NoPlayer, NoPlayer, Bob, Bob, Move(5, 4, 2)) }

NextReload ==
    \/ \E type \in FrameTypes, payload \in ReloadPayloads :
          AuthoritativeFrame(type, payload)
    \/ \E col \in RouterColumns, sendThrows \in BOOLEAN : HandleColumnClick(col, sendThrows)
    \/ PendingMoveTimeout
    \/ Reload
    \/ AutoReconnectEffect
    \/ \E h \in 1..MaxSockets : WsOpen(h)
    \/ \E h \in 1..MaxSockets : JoinTimerFire(h)

SpecReload == InitGameSpec /\ [][NextReload]_vars

-----------------------------------------------------------------------------
(* Claims about the connection manager, checked under SpecConn *)

SessionIds == 1..Len(sessions)
SocketIds  == 1..Len(sockets)
ConnectOps == {"handleModeSelection", "autoReconnect", "retryTimer"}

\* The close event of the tracked socket was the last task
TrackedClose == lastEvent.op = "close" /\ lastEvent.tracked

\* C4 (as stated): counted from the initial connect or the last successful
\* open, a connect session schedules at most 5 reconnects; when the tracked
\* socket closes with 5 retries already used, no reconnect is scheduled and
\* the fatal failure is reported (alert).
C4_RetryCapAsStated ==
    /\ \A s \in SessionIds : sessions[s].scheduled <= 5
    /\ (TrackedClose /\ lastEvent.used = 5) => (~lastEvent.retry /\ lastEvent.alert)

\* C4 (amended): as above, but the failure is reported only when the page is
\* not unloading: a close handled after the unload signal reports nothing.
C4_RetryCap ==
    /\ \A s \in SessionIds : sessions[s].scheduled <= 5
    /\ (TrackedClose /\ lastEvent.used = 5) => ~lastEvent.retry
    /\ (TrackedClose /\ lastEvent.used = 5 /\ ~isUnloadingRef) => lastEvent.alert
    /\ (TrackedClose /\ lastEvent.used = 5 /\ isUnloadingRef) => ~lastEvent.alert

C4_Witness ==
    TrackedClose /\ lastEvent.used = 5 /\ ~isUnloadingRef /\ lastEvent.alert

\* C5: the delay of the k-th consecutive reconnect (k = 1..5) is
\* 1000 * 2^(k-1) ms, and a successful open puts the retry counter back to 0
\* and the delay back to 1000 ms.
C5_BackoffDelays ==
    /\ \A s \in SessionIds :
          sessions[s].timer # 0 =>
              sessions[s].timer = 1000 * 2 ^ (sessions[s].scheduled - 1)
    /\ lastEvent.op = "open" =>
          LET s == sockets[lastEvent.ws].session IN
          sessions[s].retryCount = 0 /\ sessions[s].retryDelay = 1000

\* C6: an attempt made while the retry counter is N opens
\* candidates[N mod candidates.length]; two consecutive failed attempts never
\* use the same endpoint.
C6_CandidateRotation ==
    /\ \A h \in SocketIds :
          sockets[h].session # 0 =>
              sockets[h].url = Candidates[(sockets[h].retryAt % Len(Candidates)) + 1]
    /\ (lastEvent.op = "close" /\ lastEvent.failedUrl # <<>>) =>
          lastEvent.failedUrl # lastEvent.prevFailedUrl

\* C7: at most one socket is connecting or open; a connect request creates no
\* socket while the tracked socket is connecting or open; every socket that
\* is no longer tracked has been closed.
C7_SingleLiveSocket ==
    /\ Cardinality({h \in SocketIds : sockets[h].readyState \in {"CONNECTING", "OPEN"}}) <= 1
    /\ \A h \in SocketIds :
          h # activeWsRef => sockets[h].readyState \in {"CLOSING", "CLOSED"}
    /\ (lastEvent.op \in ConnectOps /\ lastEvent.live) => ~lastEvent.created

C7_Witness ==
    /\ lastEvent.op \in ConnectOps /\ lastEvent.live
    /\ activeWsRef # 0
    /\ sockets[activeWsRef].readyState = "CONNECTING"

\* C8: the join frame is sent in the open transition itself, so every socket
\* that has opened has had a join sent on it.
C8_JoinOnOpen ==
    \A h \in SocketIds : sockets[h].opened => sockets[h].joinSent >= 1

\* C9: a close event from a socket that is not the tracked one changes
\* nothing: connection state, tracked socket, retry counter and delay stay as
\* they were and no reconnect is scheduled.
C9_StaleCloseIgnored ==
    [][ \A h \in SocketIds :
          ( /\ sockets[h].readyState # "CLOSED"
            /\ sockets'[h].readyState = "CLOSED"
            /\ activeWsRef # h )
          => /\ UNCHANGED <<isConnected, websocket, activeWsRef>>
             /\ Len(sessions') = Len(sessions)
             /\ \A s \in SessionIds :
                   /\ sessions'[s].retryCount = sessions[s].retryCount
                   /\ sessions'[s].retryDelay = sessions[s].retryDelay
                   /\ sessions'[s].timer = sessions[s].timer
                   /\ sessions'[s].alerts = sessions[s].alerts ]_vars

C9_Witness ==
    lastEvent.op = "close" /\ ~lastEvent.tracked /\ ~isUnloadingRef

\* C10: once the unload signal has been received the unloading flag stays
\* set, and no close event, retry timer or connect request schedules a
\* reconnect or creates a socket.
C10_UnloadIsFinal ==
    [][ isUnloadingRef =>
          /\ isUnloadingRef'
          /\ Len(sockets') = Len(sockets)
          /\ \A s \in 1..Len(sessions') :
                sessions'[s].timer # 0 =>
                    s <= Len(sessions) /\ sessions'[s].timer = sessions[s].timer ]_vars

C10_Witness ==
    isUnloadingRef /\ TrackedClose /\ lastEvent.used < 5

\* C11: once the owning component has unmounted, a reconnect timer that a
\* connect session scheduled earlier creates no connection when it fires.
C11_NoReconnectAfterTeardown ==
    (~mounted /\ lastEvent.op = "retryTimer") => ~lastEvent.created

-----------------------------------------------------------------------------
(* Claims about the reconciler, checked under SpecGame *)

\* the frame carries a board of 6 rows of 7 cells
Is6x7(board) ==
    /\ board.kind = "array"
    /\ Len(board.rows) = 6
    /\ \A r \in 1..6 : board.rows[r] # NotARow /\ Len(board.rows[r]) = 7

\* a gameState / gameStart frame was given to the message handler last
FrameHandled == lastEvent.op = "frame" /\ lastEvent.type \in {"gameState", "gameStart"}

\* C1: once a gameState / gameStart frame that carries a 6x7 board has been
\* handled, the reconciler's board is the board of that frame, whatever
\* optimistic moves, rollbacks or pending timeouts came before it.
C1_BoardIsLastFrame ==
    (FrameHandled /\ Is6x7(lastEvent.board)) => gameState.board = lastEvent.board.rows

C1_Witness ==
    /\ FrameHandled /\ Is6x7(lastEvent.board)
    /\ lastEvent.hadPending
    /\ lastEvent.board.rows = BoardB
    /\ gameState.board = BoardB

\* C2: after any gameState / gameStart frame has been handled, PendingMove is
\* empty, whatever the payload contains.
C2_PendingCleared ==
    FrameHandled => pendingMove = NoMove

\* C3: after an authoritative frame has been handled (the handler did not
\* throw), currentTurn, winner and lastMove come from the payload only: a
\* field the payload omits is not filled from the previous local state.
C3_FieldsFromPayload ==
    (FrameHandled /\ ~lastEvent.threw) =>
        /\ gameState.lastMove = lastEvent.lastMove
        /\ gameState.winner = NormalizePlayer(lastEvent.winner)
        /\ gameState.currentTurn =
              (IF lastEvent.currentTurn # NoTurn THEN lastEvent.currentTurn ELSE 1)

\* every cell of column col (0-based) is non-zero
ColumnFull(board, col) == \A r \in 1..6 : board[r][col + 1] # 0

\* handleColumnClick ran last
Clicked == lastEvent.op = "click"

\* C14: if all 6 cells of column c are non-zero, a local move on c is
\* rejected: board, currentTurn, lastMove and PendingMove are unchanged and
\* no move frame is sent.
C14_FullColumnRejected ==
    [][ (lastEvent'.op = "click" /\ ColumnFull(gameState.board, lastEvent'.column))
          => /\ UNCHANGED <<gameState, pendingMove, pendingMoveTimeoutRef>>
             /\ ~lastEvent'.accepted /\ ~lastEvent'.sent /\ ~lastEvent'.sendFailed ]_vars

C14_Witness ==
    /\ Clicked /\ ColumnFull(gameState.board, lastEvent.column)
    /\ isMyTurn /\ GetEffectiveStatus(gameState) = "in_progress"
    /\ sockets[websocket].readyState = "OPEN"

\* the number of the slot the local player sits in
LocalSlot(gs) == IF UsernameOf(gs.player1) = LocalUser THEN 1 ELSE 2

\* C15: an accepted local move on column c writes the local player's number
\* into the empty cell of c with the largest row index, sets lastMove to that
\* {row, column, player}, gives the turn to the other player, records a
\* PendingMove for the cell and sends exactly one move{column: c} frame.
C15_OptimisticMove ==
    [][ (lastEvent'.op = "click" /\ lastEvent'.accepted /\ ~lastEvent'.sendFailed)
          => \E r \in 0..5 :
                LET c == lastEvent'.column
                    p == LocalSlot(gameState)
                IN /\ gameState.board[r + 1][c + 1] = 0
                   /\ \A q \in (r + 1)..5 : gameState.board[q + 1][c + 1] # 0
                   /\ gameState'.board = [gameState.board EXCEPT ![r + 1][c + 1] = p]
                   /\ gameState'.lastMove = Move(r, c, p)
                   /\ gameState'.currentTurn = 3 - p
                   /\ gameState' = [gameState EXCEPT !.board = gameState'.board,
                                                      !.lastMove = gameState'.lastMove,
                                                      !.currentTurn = 3 - p]
                   /\ pendingMove' = [kind |-> "move", row |-> r, col |-> c, player |-> p]
                   /\ lastEvent'.frames = <<[type |-> "move", column |-> c]>> ]_vars

\* the move on an empty board at column 3 as player 1
C15_Witness ==
    /\ Clicked /\ lastEvent.accepted /\ lastEvent.sent /\ lastEvent.column = 3
    /\ gameState.board = BoardA
    /\ gameState.lastMove = Move(5, 3, 1)
    /\ gameState.currentTurn = 2
    /\ pendingMove = [kind |-> "move", row |-> 5, col |-> 3, player |-> 1]

\* C16: if sending the move frame fails, board, lastMove and currentTurn are
\* what they were before the optimistic move, PendingMove is empty, no
\* pending timeout is left armed and no move frame has gone out.
C16_SendFailureRollback ==
    [][ (lastEvent'.op = "click" /\ lastEvent'.sendFailed)
          => /\ gameState'.board = gameState.board
             /\ gameState'.lastMove = gameState.lastMove
             /\ gameState'.currentTurn = gameState.currentTurn
             /\ pendingMove' = NoMove
             /\ ~pendingMoveTimeoutRef'
             /\ lastEvent'.frames = <<>> ]_vars

\* a failed send after an earlier move whose pending timeout was still armed
C16_Witness ==
    /\ Clicked /\ lastEvent.sendFailed /\ lastEvent.timerArmed
    /\ gameState.lastMove = Move(5, 4, 2)
    /\ isMyTurn

-----------------------------------------------------------------------------
(* Claims about the handler setup, checked under SpecSetup *)

\* C12: each inbound frame is processed by the message handler exactly once,
\* also after the handler setup has run several times on the same socket.
C12_HandledOnce ==
    FrameHandled => lastEvent.handled = 1

(* Claims about the router, checked under SpecRouter *)

\* the frame types messageHandler recognises
RecognisedTypes ==
    {"gameState", "gameStart", "gameFinished", "opponentExited", "leaderboardUpdate",
     "playAgainUpdate", "error"}

\* C13: a frame that is not valid JSON, or whose type is not recognised, is
\* dropped: game state, PendingMove, finished state and connection state are
\* unchanged, no event is published and nothing propagates out of the handler
\* (every variable but the observation keeps its value).
C13_BadFrameDropped ==
    [][ (lastEvent'.op = "frame" /\ lastEvent'.type \notin RecognisedTypes)
          => /\ UNCHANGED <<gameState, isMyTurn, pendingMove, pendingMoveTimeoutRef,
                            gameFinished, finishedData>>
             /\ UNCHANGED appVars
             /\ lastEvent'.published = {} ]_vars

C13_Witness ==
    /\ lastEvent.op = "frame" /\ lastEvent.type \in {NotJson, JsonNull, "chat"}
    /\ lastEvent.hadPending /\ pendingMove # NoMove
    /\ gameFinished

\* the player slot whose number is currentTurn
TurnSlot(gs) ==
    IF gs.currentTurn = 1 THEN gs.player1
    ELSE IF gs.currentTurn = 2 THEN gs.player2
    ELSE NoPlayer

\* the status after the waiting refinement
RefinedStatus(gs) ==
    IF gs.status = "waiting" /\ gs.player1 # NoPlayer /\ gs.player2 # NoPlayer
    THEN "in_progress" ELSE gs.status

OwnsTurn(gs) ==
    /\ RefinedStatus(gs) = "in_progress"
    /\ TurnSlot(gs) # NoPlayer
    /\ TurnSlot(gs).username = LocalUser

\* C17: the local player owns the turn exactly when the refined status is
\* in_progress and the local username is the username of the slot whose
\* number is currentTurn; a local move is accepted only while the local
\* player owns the turn.
C17_TurnOwnership ==
    [][ /\ isMyTurn' = OwnsTurn(gameState')
        /\ (lastEvent'.op = "click" /\ lastEvent'.accepted) => OwnsTurn(gameState) ]_vars

\* a move accepted from the second slot
C17_Witness ==
    /\ Clicked /\ lastEvent.accepted /\ lastEvent.sent
    /\ gameState.lastMove.player = 2
    /\ UsernameOf(gameState.player2) = LocalUser
    /\ UsernameOf(gameState.player1) # LocalUser
    /\ ~isMyTurn

-----------------------------------------------------------------------------
(* Claims about the matchmaking timer and the restored board, checked under  *)
(* SpecMatch                                                                 *)

BothSlots(gs) == gs.player1 # NoPlayer /\ gs.player2 # NoPlayer

\* both slots are populated, the status reads waiting and the turn is the
\* local player's
WaitingButStarted(gs) ==
    /\ BothSlots(gs) /\ gs.status = "waiting"
    /\ TurnSlot(gs) # NoPlayer /\ TurnSlot(gs).username = LocalUser

\* C18: when both player slots are populated and the status reads waiting,
\* the session counts as in_progress for turn ownership and move acceptance:
\* the player whose turn it is owns the turn, and a move on a column with an
\* empty cell over an open socket is accepted.
C18_WaitingRefinement ==
    [][ /\ WaitingButStarted(gameState') => isMyTurn'
        /\ ( /\ lastEvent'.op = "click"
              /\ WaitingButStarted(gameState)
              /\ ~ColumnFull(gameState.board, lastEvent'.column)
              /\ sockets[websocket].readyState = "OPEN" )
           => lastEvent'.accepted ]_vars

C18_Witness ==
    /\ Clicked /\ lastEvent.accepted /\ lastEvent.sent
    /\ BothSlots(gameState) /\ gameState.status = "waiting"
    /\ gameState.lastMove = Move(4, 3, 1)

\* the friend waiting timeout fired last
Expired == lastEvent.op = "friendWaitingTimeout"

\* C19: if the matchmaking timer expires while the in-memory session is still
\* waiting in friend mode with an empty player slot and the socket is open,
\* the session mode becomes the bot mode, a cancelWaiting frame is sent and
\* the join in bot mode follows.
C19_BotFallback ==
    (Expired /\ lastEvent.waiting /\ lastEvent.open)
        => /\ storedGameMode = "computer"
           /\ lastEvent.frames = <<[type |-> "cancelWaiting"]>>
           /\ botJoinTimer

\* C20: the bot fallback never runs after the waiting condition has ended:
\* the timer is armed only while the in-memory session waits in friend mode
\* with an empty slot, an expiry switches the mode and sends cancelWaiting
\* only in such a state, and the bot join is pending only after a switch.
C20_NoFallbackAfterWaiting ==
    /\ friendWaitingTimeoutRef => IsWaitingForFriend(gameState, storedGameMode)
    /\ (Expired /\ ~lastEvent.waiting) =>
          (lastEvent.frames = <<>> /\ ~botJoinTimer /\ storedGameMode # "computer")
    /\ botJoinTimer => storedGameMode = "computer"
    /\ (lastEvent.op = "botJoinTimer" /\ lastEvent.frames # <<>>) =>
          storedGameMode = "computer"

\* a frame that brought the second player cancelled the armed timer
C20_Witness ==
    /\ FrameHandled /\ lastEvent.waitingArmed
    /\ ~friendWaitingTimeoutRef
    /\ BothSlots(gameState)
    /\ storedGameMode = "friend"

-----------------------------------------------------------------------------
(* SessionStore and the login gate *)

\* the page was loaded last: by handleExit or by a reload
Exited == lastEvent.op = "handleExit"
Reloaded == lastEvent.op = "reload"

\* C21: after handleExit has cleared the game snapshot and the opponent mode,
\* the load of the username that follows returns the saved username, and the
\* session resumes at mode selection, not at login.
C21_UsernameSurvivesExit ==
    Exited => /\ lastEvent.storedUsername # ""
              /\ lastEvent.username = lastEvent.storedUsername
              /\ lastEvent.screen = "mode"

\* C22: a page load more than 24 hours after the last write returns neither
\* the persisted username nor the persisted opponent mode although storage
\* holds both.
C22_StaleNotRestored ==
    (/\ Reloaded
     /\ lastEvent.storedUsername # "" /\ lastEvent.storedGameMode # "none"
     /\ lastEvent.age > MaxAge)
        => lastEvent.username = "" /\ lastEvent.gameMode = "none"

-----------------------------------------------------------------------------
(* Claims about the finished state and the leaderboard events, checked under
   SpecRouter *)

\* a frame of the given branch of messageHandler was handled last
Routed(branch) == lastEvent.op = "frame" /\ Branch(lastEvent.type) = branch

\* C23: handling a gameFinished frame {winner, isDraw, botWon} sets the
\* finished state to those values and publishes, in the same handling, a
\* leaderboard:update event that carries the same winner and isDraw.
C23_FinishedPublishes ==
    Routed("gameFinished")
        => /\ gameFinished
           /\ finishedData = FinishedData(lastEvent.payload)
           /\ \E i \in 1..Len(lastEvent.events) :
                 /\ lastEvent.events[i].name = "leaderboard:update"
                 /\ lastEvent.events[i].detail.winner = lastEvent.payload.winner
                 /\ lastEvent.events[i].detail.isDraw = lastEvent.payload.isDraw

\* the finished state is set from the frame (the part of C23 the code does)
C23_FinishedStateSet ==
    Routed("gameFinished")
        => gameFinished /\ finishedData = FinishedData(lastEvent.payload)

\* C24: a leaderboardUpdate frame publishes exactly one leaderboard:update
\* event whose detail is the payload of the frame ({} when the frame has
\* none), and changes no local state.
C24_LeaderboardRelay ==
    [][ (lastEvent'.op = "frame" /\ Branch(lastEvent'.type) = "leaderboardUpdate")
          => /\ lastEvent'.events =
                   <<CustomEvent("leaderboard:update",
                                 IF lastEvent'.payload = NoPayload THEN EmptyDetail
                                 ELSE lastEvent'.payload)>>
             /\ UNCHANGED <<appVars, gameVars, matchVars, storeVars>> ]_vars

C24_Witness ==
    /\ Routed("leaderboardUpdate")
    /\ lastEvent.payload = LeaderboardPayload("alice", FALSE)
    /\ lastEvent.events[1].detail.winner = "alice"
    /\ pendingMove # NoMove

\* a username of 3 to 20 characters from letters, digits, underscore, hyphen
WellFormed(chars) ==
    /\ Len(chars) >= 3 /\ Len(chars) <= 20
    /\ \A i \in 1..Len(chars) : chars[i] \in WordChars

Submitted == lastEvent.op = "submit"

\* no socket is created, hence no frame sent, before a well-formed username
\* is held and a mode is chosen; a malformed username is rejected at login
C25_NoConnectBeforeLogin ==
    /\ Len(sockets) > 0
          => /\ gameMode # "none"
             /\ \E chars \in Typed : WellFormed(chars) /\ username = Text(chars)
    /\ (Submitted /\ ~WellFormed(lastEvent.typed))
          => lastEvent.error # "" /\ lastEvent.screen = "login" /\ username = ""

\* C25: no connection attempt is made and no frame is sent before a username
\* of 3 to 20 characters from letters, digits, underscore and hyphen has been
\* accepted and an opponent mode chosen; a malformed username such as "ab" is
\* rejected and the session stays at login; an accepted one leads to mode
\* selection.
C25_LoginGate ==
    /\ C25_NoConnectBeforeLogin
    /\ (Submitted /\ WellFormed(lastEvent.typed))
          => lastEvent.error = "" /\ lastEvent.screen = "mode"

-----------------------------------------------------------------------------
(* Claims about the optimistic move and its PendingMove, checked under
   SpecGame *)

\* some cell that holds 1 or 2 holds 0 after the step
CellReverts ==
    \E r \in 1..6, c \in 1..7 :
        /\ gameState.board[r][c] \in {1, 2}
        /\ gameState'.board[r][c] = 0

\* C26: in the rendered board a cell that holds 1 or 2 never becomes 0 again
\* except in the handling of an authoritative frame, which replaces the whole
\* board; a click, a rollback after a failed send and the pending timeout
\* revert no cell.
C26_CellsNeverRevert ==
    [][ CellReverts => (lastEvent'.op = "frame"
                        /\ lastEvent'.type \in {"gameState", "gameStart"}
                        /\ ~lastEvent'.threw
                        /\ gameState'.board = NormalizeBoard(lastEvent'.board).rows) ]_vars

C26_Witness ==
    /\ Clicked /\ lastEvent.accepted /\ lastEvent.sendFailed
    /\ \E c \in 1..7 : gameState.board[6][c] \in {1, 2}
    /\ gameState.board[6][lastEvent.column + 1] = 0

-----------------------------------------------------------------------------
(* Claim about the close handler chain, checked under SpecSetup *)

\* C27: the handler setup of the board never removes or replaces the onclose
\* of App: after any number of setups on the tracked socket, an unexpected
\* close of it runs the onclose of App exactly once, and a reconnect is
\* scheduled.
C27_CloseReachesApp ==
    (lastEvent.op = "close" /\ lastEvent.tracked /\ ~isUnloadingRef)
        => /\ lastEvent.reached = 1
           /\ lastEvent.retry
           /\ sessions[lastEvent.session].timer # 0
           /\ sessions[lastEvent.session].scheduled = lastEvent.used + 1

C27_Witness ==
    /\ lastEvent.op = "close" /\ lastEvent.tracked
    /\ messageHandlers >= 2
    /\ lastEvent.reached = 1 /\ lastEvent.retry

-----------------------------------------------------------------------------
(* Claims about the outstanding optimistic move, checked under SpecRouter *)

\* C28: at most one optimistic move is outstanding: once a local move has
\* been accepted and sent, no further local move is accepted (no cell
\* written, no move frame sent) until an authoritative frame has been applied
\* or the move has been rolled back.
C28_OneOutstandingMove ==
    unansweredMoves <= 1

\* the pending timeout clears PendingMove and nothing else: the board with the
\* optimistic cell, lastMove and currentTurn stay
C29_TimeoutClearsOnlyPending ==
    [][ lastEvent'.op = "pendingTimeout"
          => /\ pendingMove' = NoMove
             /\ UNCHANGED <<gameState, isMyTurn, gameFinished, finishedData>>
             /\ UNCHANGED <<appVars, matchVars, storeVars>> ]_vars

\* a local move is unanswered and its PendingMove is gone
TimedOutUnanswered == unansweredMoves >= 1 /\ pendingMove = NoMove

\* C29: when the pending timeout fires before any authoritative frame, only
\* PendingMove is cleared (the optimistic cell, lastMove and the flipped
\* currentTurn stay), and the local player cannot move again until an
\* authoritative frame arrives.
C29_PendingTimeout ==
    /\ C29_TimeoutClearsOnlyPending
    /\ [](TimedOutUnanswered => ~isMyTurn)

-----------------------------------------------------------------------------
(* Claim about the life of a PendingMove, checked under SpecPending *)

\* while a PendingMove is recorded the timer that clears it is armed
PendingHasTimer == pendingMove # NoMove => pendingMoveTimeoutRef

\* C30: every recorded PendingMove is eventually cleared, by an authoritative
\* frame, by the pending timeout or by a rollback, also when the server never
\* answers: a timer that clears it is armed for as long as it is recorded,
\* and it does not stay recorded for ever.
C30_PendingEventuallyCleared ==
    /\ []PendingHasTimer
    /\ (pendingMove # NoMove) ~> (pendingMove = NoMove)

C30_Witness ==
    /\ lastEvent.op = "pendingTimeout" /\ lastEvent.hadPending
    /\ pendingMove = NoMove /\ ~pendingMoveTimeoutRef
    /\ unansweredMoves >= 1

-----------------------------------------------------------------------------
(* Claims about the reconciler as a function of the frame, checked under
   SpecGame *)

\* the reconciler state: board, currentTurn, status, players, winner,
\* lastMove and PendingMove
ReconcilerState == [state |-> gameState, pending |-> pendingMove]

\* the frames messageHandler applies (it does not leave through its catch)
AppliedFrames ==
    { f \in {"gameState", "gameStart"} \X Payloads :
         ~NormalizeBoard(f[2].board).throws }

-----------------------------------------------------------------------------
(* Claim about the shape of the board, checked under SpecShape *)

\* 6 rows of 7 cells
SixBySeven(board) ==
    /\ Len(board) = 6
    /\ \A r \in 1..6 : Len(board[r]) = 7

-----------------------------------------------------------------------------
(* Claims about the matchmaking countdown and the mode of the join, checked
   under SpecMatch *)

\* C33: the matchmaking countdown runs for 10 s from the moment the waiting
\* condition first holds: an authoritative frame that leaves the condition
\* true, handled while the countdown runs, does not restart it.
C33_CountdownNotRestarted ==
    (/\ FrameHandled /\ lastEvent.waitingArmed
     /\ IsWaitingForFriend(gameState, storedGameMode))
        => ~lastEvent.rearmed

-----------------------------------------------------------------------------
(* Claims about the mode of the join after the bot fallback, checked under
   SpecRejoin *)

\* the frames the last step sent that are join frames, by their mode
JoinModesSent ==
    CASE lastEvent.op = "joinTimer" ->
            IF lastEvent.sent THEN {lastEvent.mode} ELSE {}
      [] lastEvent.op = "botJoinTimer" ->
            { lastEvent.frames[i].gameMode : i \in 1..Len(lastEvent.frames) }
      [] OTHER -> {}

\* C34: once the matchmaking fallback has switched the session to bot mode
\* (the stored mode reads computer), every join frame sent afterwards, the
\* join after a reconnect included, carries the mode computer and never friend.
C34_JoinsCarryBotMode ==
    storedGameMode = "computer" => JoinModesSent \subseteq {"computer"}

-----------------------------------------------------------------------------
(* Claims about the page unload, checked under SpecConn *)

\* C35: after the page-unload signal the client sends no frame: a socket that
\* was still connecting at the unload gets no join when it opens, and a join
\* timer armed before the unload sends nothing.
C35_NoJoinAfterUnload ==
    isUnloadingRef => ~(lastEvent.op = "joinTimer" /\ lastEvent.sent)

-----------------------------------------------------------------------------
(* Claims about the turn of a local move, checked under SpecRouter *)

\* C36: every accepted local move writes the player number that currentTurn
\* held just before the move, and afterwards currentTurn is the other player
\* number.
C36_MoveWritesCurrentTurn ==
    [][ (lastEvent'.op = "click" /\ lastEvent'.sent)
           => /\ pendingMove'.player = gameState.currentTurn
              /\ gameState'.board[pendingMove'.row + 1][pendingMove'.col + 1]
                    = gameState.currentTurn
              /\ gameState'.currentTurn = 3 - gameState.currentTurn ]_vars

-----------------------------------------------------------------------------
(* Claims about the rematch, checked under SpecRouter *)

\* C37: after gameFinished or opponentExited has set the finished state, the
\* next gameStart frame (the rematch) clears the finished state and the
\* rematch-loading flag: the popup is not over the new game.
C37_RematchClearsFinished ==
    (lastEvent.op = "frame" /\ lastEvent.type = "gameStart" /\ ~lastEvent.threw)
        => ~gameFinished /\ ~isLoadingRematch

-----------------------------------------------------------------------------
(* Claims about the status override, checked under SpecRouter *)

\* the frame the last step applied carried both players
CarriesBothPlayers ==
    /\ NormalizePlayer(FromPayload(lastEvent.payload.Player1, lastEvent.payload.player1)) # NoPlayer
    /\ NormalizePlayer(FromPayload(lastEvent.payload.Player2, lastEvent.payload.player2)) # NoPlayer

\* C38: the status override is limited to the waiting case: after a gameState
\* or gameStart frame that carries both players and the status completed or
\* draw, the stored status is that status.
C38_EndStatusKept ==
    (/\ FrameHandled /\ ~lastEvent.threw /\ CarriesBothPlayers
     /\ Or(lastEvent.payload.Status, lastEvent.payload.status) \in {"completed", "draw"})
        => gameState.status = Or(lastEvent.payload.Status, lastEvent.payload.status)

-----------------------------------------------------------------------------
(* Claims about the end of a connect session, checked under SpecConn *)

\* session s has used its 5 retries, its retry timer is not armed and the
\* socket of its last attempt is closed
RetriesExhausted(s) ==
    /\ sessions[s].scheduled = 5
    /\ sessions[s].timer = 0
    /\ sessions[s].createdWs # 0
    /\ sockets[sessions[s].createdWs].readyState = "CLOSED"

\* a session that has used up its retries stays as it is: no attempt, no
\* timer, no further report
SessionOver(s) ==
    RetriesExhausted(s) =>
        /\ RetriesExhausted(s)'
        /\ sessions'[s].createdWs = sessions[s].createdWs
        /\ sessions'[s].alerts = sessions[s].alerts

\* the close event of the last attempt of a session: the socket of its 5th
\* retry closes without having opened
LastAttemptFailed ==
    lastEvent.op = "close" /\ lastEvent.used = 5 /\ lastEvent.failedUrl # <<>>

\* C39 (as stated): when the initial attempt and the 5 retries of a connect
\* session have failed, the fatal failure is reported exactly once, and
\* afterwards the session makes no attempt and arms no timer.
C39_SessionTerminatesAsStated ==
    /\ [](/\ \A s \in SessionIds : sessions[s].alerts <= 1
          /\ LastAttemptFailed =>
                /\ sessions[lastEvent.session].alerts = 1
                /\ RetriesExhausted(lastEvent.session))
    /\ [][\A s \in SessionIds : SessionOver(s)]_vars

\* C39 (amended): as above, but the failure is reported exactly once only when
\* the page is not unloading; after the unload signal nothing is reported. In
\* both cases the session makes no attempt and arms no timer afterwards.
C39_SessionTerminates ==
    /\ [](/\ \A s \in SessionIds :
                /\ sessions[s].alerts <= 1
                /\ sessions[s].alerts = 1 => RetriesExhausted(s)
          /\ LastAttemptFailed =>
                /\ sessions[lastEvent.session].alerts = (IF isUnloadingRef THEN 0 ELSE 1)
                /\ RetriesExhausted(lastEvent.session))
    /\ [][\A s \in SessionIds : SessionOver(s)]_vars

C39_Witness ==
    /\ lastEvent.op = "unmount"
    /\ \E s \in SessionIds : RetriesExhausted(s) /\ sessions[s].alerts = 1

-----------------------------------------------------------------------------
(* Claims about the reload, checked under SpecReload *)

\* GameBoard has just been mounted: the page was loaded again and its socket
\* has opened
BoardJustMounted == lastEvent.op = "open" /\ lastEvent.render = "mount"

=============================================================================
